---- MODULE Spec2Model ----
(* Model of the fuzzy filter of workflow/old_workflow.py:                  *)
(* Workflow.filter, Workflow._filter_item and Workflow._search_for_query.  *)
(* Strings are sequences of one-character strings.  Scores are exact       *)
(* fractions [n, d] in lowest terms (the code computes them as floats);   *)
(* where the rounding of the floats matters they are computed bit by bit. *)
EXTENDS Integers, Sequences, FiniteSets, TLC

VARIABLES query, items, ascending, include_score, min_score, max_results,
          match_on, fold_diacritics, settings, search_pattern_cache,
          result, pc, value, word, item_result,
          settings_file, settings_original, raised, last_magic,
          cache_serializer, cache_files, cache_args, cache_returned,
          data_func_calls,
          self_version, other_version, compared,
          releases_files, update_args, update_returned, opened,
          threads,
          scores

vars == <<query, items, ascending, include_score, min_score, max_results,
          match_on, fold_diacritics, settings, search_pattern_cache,
          result, pc, value, word, item_result,
          settings_file, settings_original, raised, last_magic,
          cache_serializer, cache_files, cache_args, cache_returned,
          data_func_calls,
          self_version, other_version, compared,
          releases_files, update_args, update_returned, opened,
          threads,
          scores>>

(* the Settings object of the engine, its file, the exception of the last *)
(* operation and the last magic action run on the settings file           *)
settings_vars == <<settings, settings_file, settings_original, raised,
                   last_magic>>

filter_vars == <<query, items, ascending, include_score, min_score,
                 max_results, result>>

item_vars == <<value, word, item_result>>

(* the cache of the engine: the attribute _cache_serializer, the cache    *)
(* files of one name in the cache directory, and the arguments, the       *)
(* return value and the number of calls of data_func of the last call of  *)
(* cached_data or cache_data                                              *)
cache_vars == <<cache_serializer, cache_files, cache_args, cache_returned,
                data_func_calls>>

(* the version strings of two Version objects and the results of their    *)
(* comparisons                                                            *)
version_vars == <<self_version, other_version, compared>>

(* the cache files of the releases, the arguments and the return value of *)
(* the last call of check_update or install_update, and the downloads     *)
(* opened so far                                                          *)
update_vars == <<releases_files, update_args, update_returned, opened>>

(* the threads that run _search_for_query on the engine                   *)
thread_vars == <<threads>>

(* the total score of one value for the queries filter was called with,   *)
(* as floats                                                              *)
score_vars == <<scores>>

----------------------------------------------------------------------------
(* Bounds of the model *)

MaxItems == 2

MaxQueryLen == 3

MaxKeyLen == 3

MaxWordLen == 2

MaxResults == 1

----------------------------------------------------------------------------
(* constants.py *)

MATCH_STARTSWITH == 1

MATCH_CAPITALS == 2

MATCH_ATOM == 4

MATCH_INITIALS_STARTSWITH == 8

MATCH_INITIALS_CONTAIN == 16

MATCH_SUBSTRING == 32

MATCH_ALLCHARS == 64

MATCH_ALL == 127

(* the rule of `return (0, None)` *)
None == 0

(* the key of the user override of fold_diacritics in the settings *)
FoldingKey == "__workflow_diacritic_folding"

----------------------------------------------------------------------------
(* Characters *)

Upper == {"A", "B", "H", "I", "M", "Y"}

Digits == {"1"}

Lowers == {"a", "b", "c", "e", "f", "h", "i", "m", "o", "r", "s", "t", "u",
           "w", "y"}

Whitespace == {" "}

NonAscii == {"é", "ß"}

Ord(c) ==
  CASE c = " " -> 32
    [] c = "+" -> 43
    [] c = "-" -> 45
    [] c = "." -> 46
    [] c = "0" -> 48
    [] c = "1" -> 49
    [] c = "2" -> 50
    [] c = "3" -> 51
    [] c = "4" -> 52
    [] c = "5" -> 53
    [] c = "6" -> 54
    [] c = "7" -> 55
    [] c = "8" -> 56
    [] c = "9" -> 57
    [] c = "A" -> 65
    [] c = "B" -> 66
    [] c = "a" -> 97
    [] c = "b" -> 98
    [] c = "ß" -> 223
    [] c = "é" -> 233
    [] c = "H" -> 72
    [] c = "I" -> 73
    [] c = "M" -> 77
    [] c = "Y" -> 89
    [] c = "c" -> 99
    [] c = "e" -> 101
    [] c = "f" -> 102
    [] c = "h" -> 104
    [] c = "i" -> 105
    [] c = "m" -> 109
    [] c = "o" -> 111
    [] c = "r" -> 114
    [] c = "s" -> 115
    [] c = "t" -> 116
    [] c = "u" -> 117
    [] c = "w" -> 119
    [] c = "y" -> 121

(* str.lower() on one character *)
LowerChar(c) ==
  CASE c = "A" -> "a"
    [] c = "B" -> "b"
    [] c = "H" -> "h"
    [] c = "I" -> "i"
    [] c = "M" -> "m"
    [] c = "Y" -> "y"
    [] OTHER -> c

(* str.lower() *)
Lower(s) == [i \in 1..Len(s) |-> LowerChar(s[i])]

(* INITIALS = string.ascii_uppercase + string.digits *)
INITIALS == Upper \cup Digits

(* the complement of the class [^a-zA-Z0-9] of split_on_delimiters *)
AsciiAlnum == Lowers \cup Upper \cup Digits

(* set(s) *)
CharSet(s) == {s[i] : i \in 1..Len(s)}

SetMin(S) == CHOOSE x \in S : \A y \in S : x <= y

(* str.strip(): from the first to the last character that is not whitespace *)
Strip(s) ==
  LET keep == {i \in 1..Len(s) : s[i] \notin Whitespace}
      last == CHOOSE i \in keep : \A j \in (i + 1)..Len(s) : s[j] \in Whitespace
  IN  IF keep = {} THEN <<>> ELSE SubSeq(s, SetMin(keep), last)

(* s.split(c) for a set of separator characters, one split per separator *)
RECURSIVE SplitOn(_, _)
SplitOn(s, seps) ==
  LET at == {i \in 1..Len(s) : s[i] \in seps}
  IN  IF at = {} THEN <<s>>
      ELSE <<SubSeq(s, 1, SetMin(at) - 1)>>
             \o SplitOn(SubSeq(s, SetMin(at) + 1, Len(s)), seps)

(* split_on_delimiters = re.compile('[^a-zA-Z0-9]').split *)
split_on_delimiters(s) == SplitOn(s, CharSet(s) \ AsciiAlnum)

(* str.startswith *)
StartsWith(s, p) == Len(p) <= Len(s) /\ SubSeq(s, 1, Len(p)) = p

(* p in s, for strings *)
Contains(s, p) ==
  \E i \in 0..(Len(s) - Len(p)) : SubSeq(s, i + 1, i + Len(p)) = p

(* ''.join([s[0] for s in atoms if s]) *)
RECURSIVE FirstChars(_)
FirstChars(atoms) ==
  IF atoms = <<>> THEN <<>>
  ELSE (IF Head(atoms) # <<>> THEN <<Head(atoms)[1]>> ELSE <<>>)
         \o FirstChars(Tail(atoms))

(* comparison of two Python strings: lexicographic by code point *)
StrLess(a, b) ==
  LET n == IF Len(a) < Len(b) THEN Len(a) ELSE Len(b)
      diff == {i \in 1..n : a[i] # b[i]}
  IN  IF diff = {} THEN Len(a) < Len(b)
      ELSE Ord(a[SetMin(diff)]) < Ord(b[SetMin(diff)])

----------------------------------------------------------------------------
(* Exact arithmetic on scores *)

Abs(x) == IF x < 0 THEN -x ELSE x

RECURSIVE GCD(_, _)
GCD(a, b) == IF b = 0 THEN a ELSE GCD(b, a % b)

Frac(n, d) ==
  LET g == GCD(Abs(n), d) IN [n |-> n \div g, d |-> d \div g]

Zero == Frac(0, 1)

FracInt(k) == Frac(k, 1)

FracAdd(x, y) == Frac(x.n * y.d + y.n * x.d, x.d * y.d)

(* x < y; the integer parts are compared first to keep the products small *)
FracLess(x, y) ==
  LET fx == x.n \div x.d
      fy == y.n \div y.d
  IN  IF fx # fy THEN fx < fy
      ELSE (x.n % x.d) * y.d < (y.n % y.d) * x.d

(* 100.0 / x < 100.0 / y, for nonzero x and y *)
InverseLess(x, y) ==
  IF x.n < 0 /\ y.n > 0 THEN TRUE
  ELSE IF x.n > 0 /\ y.n < 0 THEN FALSE
  ELSE FracLess(y, x)

(* mutant: every rule up to the highest bit of the mask is active *)
BitSetLoose(mask, bit) == mask >= bit

(* mutant: a bit above the rule bits switches every rule on *)
BitSetHighAsAll(mask, bit) == mask > MATCH_ALL \/ (mask \div bit) % 2 = 1

(* match_on & bit, for a single rule bit *)
BitSet(mask, bit) == (mask \div bit) % 2 = 1

----------------------------------------------------------------------------
(* Diacritic folding.  isascii and fold_to_ascii are called by            *)
(* _filter_item but defined outside the given sources.                    *)

(* isascii(text): text has ASCII characters only *)
isascii(s) == CharSet(s) \cap NonAscii = {}

(* the replacement of one character in the fixed table *)
AsciiReplacement(c) ==
  CASE c = "é" -> <<"e">>
    [] c = "ß" -> <<"s", "s">>
    [] OTHER -> <<c>>

(* fold_to_ascii(text): non-ASCII characters replaced by ASCII equivalents *)
RECURSIVE FoldChars(_)
FoldChars(s) ==
  IF s = <<>> THEN <<>>
  ELSE AsciiReplacement(Head(s)) \o FoldChars(Tail(s))

fold_to_ascii(s) == IF isascii(s) THEN s ELSE FoldChars(s)

----------------------------------------------------------------------------
(* Workflow._search_for_query and the compiled search *)

(* the pattern built for a query: '.*?' + re.escape(c) for each c *)
Pattern(q) == [i \in 1..Len(q) |-> <<".*?", q[i]>>]

(* '.' matches any character but a newline *)
DotMatches(c) == c # "\n"

(* mutant: each '.*?' skips as many characters as it can *)
RECURSIVE MatchEndGreedy(_, _, _)
MatchEndGreedy(v, pat, start) ==
  IF pat = <<>> THEN start
  ELSE LET hits == {i \in (start + 1)..Len(v) :
                      LowerChar(v[i]) = LowerChar(Head(pat)[2])}
       IN  IF hits = {} THEN -1
           ELSE MatchEndGreedy(v, Tail(pat),
                               CHOOSE i \in hits : \A j \in hits : j <= i)

(* end of the lazy match of pattern pat on v that starts at offset start, *)
(* or -1: each '.*?' skips as few characters as it can, and none of them  *)
(* is a newline                                                           *)
RECURSIVE MatchEnd(_, _, _)
MatchEnd(v, pat, start) ==
  IF pat = <<>> THEN start
  ELSE LET c == Head(pat)[2]
           stops == {i \in (start + 1)..Len(v) : ~DotMatches(v[i])}
           limit == IF stops = {} THEN Len(v) ELSE SetMin(stops)
           hits == {i \in (start + 1)..limit : LowerChar(v[i]) = LowerChar(c)}
       IN  IF hits = {} THEN -1 ELSE MatchEnd(v, Tail(pat), SetMin(hits))

(* the offsets a leftmost match can start at: a match that starts inside  *)
(* a line also matches from the start of that line                        *)
LineStarts(v) == {0} \cup {i \in 1..Len(v) : ~DotMatches(v[i])}

(* re.compile(pattern, re.IGNORECASE).search(v): the leftmost match as     *)
(* [start, end], or [start |-> -1, end |-> -1] for no match               *)
Search(pat, v) ==
  LET starts == {s \in LineStarts(v) : MatchEnd(v, pat, s) # -1}
  IN  IF starts = {} THEN [start |-> -1, end |-> -1]
      ELSE [start |-> SetMin(starts), end |-> MatchEnd(v, pat, SetMin(starts))]

(* _search_for_query(query): the cache after the call *)
_search_for_query(cache, q) ==
  IF q \in DOMAIN cache THEN cache
  ELSE [w \in DOMAIN cache \cup {q} |-> IF w = q THEN Pattern(q) ELSE cache[w]]

----------------------------------------------------------------------------
(* The scoring rules of Workflow._filter_item *)

(* the base scores of the rules *)
ScoreBase == 100

InitialsContainBase == 95

SubstringBase == 90

(* base - a / b *)
BaseMinus(base, a, b) == Frac(base * b - a, b)

(* the rules in the order _filter_item tests them *)
RuleOrder == <<MATCH_STARTSWITH, MATCH_CAPITALS, MATCH_ATOM,
               MATCH_INITIALS_STARTSWITH, MATCH_INITIALS_CONTAIN,
               MATCH_SUBSTRING, MATCH_ALLCHARS>>

(* mutant: no character counts as a capital *)
CapitalsNone(v) == <<>>

(* ''.join([c for c in value if c in INITIALS]) *)
Capitals(v) == SelectSeq(v, LAMBDA c : c \in INITIALS)

(* atoms = [s.lower() for s in split_on_delimiters(value)] *)
Atoms(v) ==
  LET parts == split_on_delimiters(v)
  IN  [i \in 1..Len(parts) |-> Lower(parts[i])]

(* initials = ''.join([s[0] for s in atoms if s]) *)
Initials(v) == FirstChars(Atoms(v))

SeqRange(s) == {s[i] : i \in 1..Len(s)}

(* the condition of one rule on value v and lowercased query q *)
RuleHolds(rule, v, q) ==
  CASE rule = MATCH_STARTSWITH -> StartsWith(Lower(v), q)
    [] rule = MATCH_CAPITALS -> StartsWith(Lower(Capitals(v)), q)
    [] rule = MATCH_ATOM -> q \in SeqRange(Atoms(v))
    [] rule = MATCH_INITIALS_STARTSWITH -> StartsWith(Initials(v), q)
    [] rule = MATCH_INITIALS_CONTAIN -> Contains(Initials(v), q)
    [] rule = MATCH_SUBSTRING -> Contains(Lower(v), q)
    [] rule = MATCH_ALLCHARS -> Search(Pattern(q), v).start # -1

(* mutant: every rule but ALLCHARS scores from the base 100 and the       *)
(* length of the key                                                      *)
RuleScoreOneFormula(rule, v, q) ==
  IF rule = MATCH_ALLCHARS
    THEN LET m == Search(Pattern(q), v)
         IN  Frac(ScoreBase, (1 + m.start) * (m.end - m.start + 1))
  ELSE BaseMinus(ScoreBase, Len(v), Len(q))

(* the score of one rule whose condition holds *)
RuleScore(rule, v, q) ==
  CASE rule = MATCH_STARTSWITH -> BaseMinus(ScoreBase, Len(v), Len(q))
    [] rule = MATCH_CAPITALS -> BaseMinus(ScoreBase, Len(Capitals(v)), Len(q))
    [] rule = MATCH_ATOM -> BaseMinus(ScoreBase, Len(v), Len(q))
    [] rule = MATCH_INITIALS_STARTSWITH ->
         BaseMinus(ScoreBase, Len(Initials(v)), Len(q))
    [] rule = MATCH_INITIALS_CONTAIN ->
         BaseMinus(InitialsContainBase, Len(Initials(v)), Len(q))
    [] rule = MATCH_SUBSTRING -> BaseMinus(SubstringBase, Len(v), Len(q))
    [] rule = MATCH_ALLCHARS ->
         LET m == Search(Pattern(q), v)
         IN  Frac(ScoreBase, (1 + m.start) * (m.end - m.start + 1))

(* mutant: the value is folded whatever the flag is *)
FoldedValueAlways(v, q, fold) ==
  IF isascii(Lower(q)) THEN fold_to_ascii(v) ELSE v

(* the value _filter_item tests: folded when folding is in effect *)
FoldedValue(v, q, fold) ==
  IF isascii(Lower(q)) /\ fold THEN fold_to_ascii(v) ELSE v

(* mutant: the pre-filter asks for the query as a substring *)
PreFilterSubstring(v, q) == Contains(Lower(v), q)

(* the pre-filter: set(query) <= set(value.lower()) *)
PreFilter(v, q) == CharSet(q) \subseteq CharSet(Lower(v))

Hit(rule, v, q) ==
  [score |-> RuleScore(rule, v, q), rule |-> rule,
   searched |-> rule = MATCH_ALLCHARS]

Miss(searched) == [score |-> Zero, rule |-> None, searched |-> searched]

(* the chain of tests of _filter_item, on the folded value and lowercased *)
(* query                                                                  *)
RuleChain(v, q, mask) ==
  IF BitSet(mask, MATCH_STARTSWITH) /\ RuleHolds(MATCH_STARTSWITH, v, q)
    THEN Hit(MATCH_STARTSWITH, v, q)
  ELSE IF BitSet(mask, MATCH_CAPITALS) /\ RuleHolds(MATCH_CAPITALS, v, q)
    THEN Hit(MATCH_CAPITALS, v, q)
  ELSE IF BitSet(mask, MATCH_ATOM) /\ RuleHolds(MATCH_ATOM, v, q)
    THEN Hit(MATCH_ATOM, v, q)
  ELSE IF BitSet(mask, MATCH_INITIALS_STARTSWITH)
          /\ RuleHolds(MATCH_INITIALS_STARTSWITH, v, q)
    THEN Hit(MATCH_INITIALS_STARTSWITH, v, q)
  ELSE IF BitSet(mask, MATCH_INITIALS_CONTAIN)
          /\ RuleHolds(MATCH_INITIALS_CONTAIN, v, q)
    THEN Hit(MATCH_INITIALS_CONTAIN, v, q)
  ELSE IF BitSet(mask, MATCH_SUBSTRING) /\ RuleHolds(MATCH_SUBSTRING, v, q)
    THEN Hit(MATCH_SUBSTRING, v, q)
  ELSE IF BitSet(mask, MATCH_ALLCHARS) /\ RuleHolds(MATCH_ALLCHARS, v, q)
    THEN Hit(MATCH_ALLCHARS, v, q)
  ELSE Miss(BitSet(mask, MATCH_ALLCHARS))

(* _filter_item(value, query, match_on, fold_diacritics): score, rule and *)
(* whether _search_for_query was called                                   *)
_filter_item(v, q, mask, fold) ==
  LET lq == Lower(q)
      fv == FoldedValue(v, q, fold)
  IN  IF ~PreFilter(fv, lq) THEN Miss(FALSE) ELSE RuleChain(fv, lq, mask)

----------------------------------------------------------------------------
(* Workflow.filter *)

(* a key of n characters: an 'a' followed by 'b's *)
LongKey(n) == [i \in 1..n |-> IF i = 1 THEN "a" ELSE "b"]

(* the candidates of a filter call are strings, named by their index here *)
CandidateStrings ==
  <<  <<" ">>, <<"a", "b">>, <<"b", "a", " ">>, <<"a", "ß">>,
      LongKey(ScoreBase + 1), <<"a", "b", " ">>  >>

(* key(item), for the default key lambda x: x *)
key(item) == CandidateStrings[item]

(* fold_diacritics after the user override:                               *)
(* self.settings.get('__workflow_diacritic_folding', fold_diacritics)     *)
EffectiveFold(stg, fold) ==
  IF FoldingKey \in DOMAIN stg THEN stg[FoldingKey] ELSE fold

(* mutant: the query is split as it is and an empty word is kept, as a    *)
(* word of one space                                                      *)
WordsKeepEmpty(q) ==
  LET parts == SplitOn(q, {" "})
  IN  [i \in 1..Len(parts) |->
         IF Strip(parts[i]) = <<>> THEN <<" ">> ELSE Strip(parts[i])]

(* words = [s.strip() for s in query.split(' ')], without the empty ones  *)
(* the loop skips                                                         *)
Words(q) ==
  LET parts == SplitOn(Strip(q), {" "})
  IN  SelectSeq([i \in 1..Len(parts) |-> Strip(parts[i])],
                LAMBDA w : w # <<>>)

(* mutant: the rule of the first word is kept *)
AddWordFirstRule(acc, r, w) ==
  [score |-> FracAdd(acc.score, r.score),
   rule |-> IF acc.rule = None THEN r.rule ELSE acc.rule,
   skip |-> acc.skip \/ r.score = Zero,
   searched |-> acc.searched]

(* mutant: only the last word decides whether the item is skipped *)
AddWordLastDecides(acc, r, w) ==
  [score |-> FracAdd(acc.score, r.score),
   rule |-> r.rule,
   skip |-> r.score = Zero,
   searched |-> acc.searched]

(* one turn of the loop over the words, r being what _filter_item         *)
(* returned for word w: score += s, rule is overwritten, skip is set when *)
(* s is 0                                                                 *)
AddWord(acc, r, w) ==
  [score |-> FracAdd(acc.score, r.score),
   rule |-> r.rule,
   skip |-> acc.skip \/ r.score = Zero,
   searched |-> IF r.searched THEN acc.searched \cup {Lower(w)}
                ELSE acc.searched]

(* the loop over the words for one value: score is the sum, rule the rule *)
(* of the last word, skip whether some word scored 0, searched the words  *)
(* _search_for_query was called with                                      *)
RECURSIVE ScoreWords(_, _, _, _, _)
ScoreWords(v, ws, mask, fold, acc) ==
  IF ws = <<>> THEN acc
  ELSE ScoreWords(v, Tail(ws), mask, fold,
                  AddWord(acc, _filter_item(v, Head(ws), mask, fold), Head(ws)))

ScoreItem(v, ws, mask, fold) ==
  ScoreWords(v, ws, mask, fold,
             [score |-> Zero, rule |-> None, skip |-> FALSE, searched |-> {}])

(* one element of results: the sort key (100.0 / score, value.lower(),    *)
(* score) is kept as value_lower and score                                *)
Entry(item, v, sc) ==
  [item |-> item, value_lower |-> Lower(v), score |-> sc.score, rule |-> sc.rule]

(* the end of one turn of the loop over items, sc being the outcome of    *)
(* the loop over the words and rest that of the later items: an item with *)
(* an empty key is passed over, one that is skipped or scores 0 adds      *)
(* nothing to results                                                     *)
AppendMatch(item, v, sc, rest) ==
  IF v = <<>> THEN rest
  ELSE IF sc.skip \/ sc.score = Zero
    THEN [results |-> rest.results,
          searched |-> sc.searched \cup rest.searched]
  ELSE [results |-> <<Entry(item, v, sc)>> \o rest.results,
        searched |-> sc.searched \cup rest.searched]

(* one turn of the loop over items, for the trimmed key v of the item *)
MatchItem(item, v, ws, mask, fold, rest) ==
  AppendMatch(item, v, ScoreItem(v, ws, mask, fold), rest)

(* the loop over items: the entries appended to results, in input order,  *)
(* and the words searched for                                             *)
RECURSIVE MatchItems(_, _, _, _)
MatchItems(its, ws, mask, fold) ==
  IF its = <<>> THEN [results |-> <<>>, searched |-> {}]
  ELSE MatchItem(Head(its), Strip(key(Head(its))), ws, mask, fold,
                 MatchItems(Tail(its), ws, mask, fold))

(* x < y for two elements of results, compared as the tuples              *)
(* ((100.0 / score, value.lower(), score), (item, score, rule))           *)
EntryLess(x, y) ==
  IF x.score # y.score THEN InverseLess(x.score, y.score)
  ELSE IF x.value_lower # y.value_lower
    THEN StrLess(x.value_lower, y.value_lower)
  ELSE IF x.item # y.item THEN StrLess(key(x.item), key(y.item))
  ELSE x.rule < y.rule

(* list.sort(reverse=rev) as a stable insertion sort *)
RECURSIVE Insert(_, _, _)
Insert(x, sorted, rev) ==
  IF sorted = <<>> THEN <<x>>
  ELSE LET before == IF rev THEN EntryLess(x, Head(sorted))
                     ELSE EntryLess(Head(sorted), x)
           same == ~EntryLess(x, Head(sorted)) /\ ~EntryLess(Head(sorted), x)
       IN  IF before \/ same THEN <<Head(sorted)>> \o Insert(x, Tail(sorted), rev)
           ELSE <<x>> \o sorted

RECURSIVE SortFrom(_, _, _)
SortFrom(es, sorted, rev) ==
  IF es = <<>> THEN sorted
  ELSE SortFrom(Tail(es), Insert(Head(es), sorted, rev), rev)

(* results.sort(reverse=ascending) *)
SortResults(es, asc) == SortFrom(es, <<>>, asc)

(* mutant: scores equal to min_score are kept *)
ApplyMinScoreInclusive(es, minsc) ==
  IF minsc # 0 THEN SelectSeq(es, LAMBDA e : ~FracLess(e.score, FracInt(minsc)))
  ELSE es

(* if min_score: results = [r for r in results if r[1] > min_score] *)
ApplyMinScore(es, minsc) ==
  IF minsc # 0 THEN SelectSeq(es, LAMBDA e : FracLess(FracInt(minsc), e.score))
  ELSE es

(* mutant: one entry too many is kept *)
ApplyMaxResultsOffByOne(es, maxres) ==
  IF maxres # 0 /\ Len(es) > maxres + 1 THEN SubSeq(es, 1, maxres + 1) ELSE es

(* if max_results and len(results) > max_results: results[:max_results] *)
ApplyMaxResults(es, maxres) ==
  IF maxres # 0 /\ Len(es) > maxres THEN SubSeq(es, 1, maxres) ELSE es

(* the (item, score, rule) tuples, or the items alone *)
Project(es, incl) ==
  IF incl THEN [i \in 1..Len(es) |-> <<es[i].item, es[i].score, es[i].rule>>]
  ELSE [i \in 1..Len(es) |-> es[i].item]

(* mutant: only the empty query returns early *)
IsBlankEmptyOnly(q) == q = <<>>

(* mutant: a query that starts with whitespace returns early *)
IsBlankLeadingSpace(q) == q = <<>> \/ Strip(<<Head(q)>>) = <<>>

(* the query is empty or whitespace only: the two early returns *)
IsBlank(q) == q = <<>> \/ Strip(q) = <<>>

(* filter(query, items, key, ascending, include_score, min_score,         *)
(* max_results, match_on, fold_diacritics), with fold the flag after the  *)
(* override: the value returned and the words searched for                *)
filter(q, its, asc, incl, minsc, maxres, mask, fold) ==
  IF IsBlank(q) THEN [returned |-> its, searched |-> {}]
  ELSE LET m == MatchItems(its, Words(q), mask, fold)
       IN  [returned |->
              Project(ApplyMaxResults(ApplyMinScore(SortResults(m.results, asc),
                                                    minsc), maxres), incl),
            searched |-> m.searched]

(* mutant: the cache keeps the patterns of the last call only *)
CacheAfterEvicting(cache, qs) ==
  IF qs = {} THEN cache ELSE [w \in qs |-> Pattern(w)]

(* the pattern cache after the calls of _search_for_query for the words   *)
(* of qs                                                                  *)
CacheAfter(cache, qs) ==
  [w \in DOMAIN cache \cup qs |->
     IF w \in DOMAIN cache THEN cache[w] ELSE _search_for_query(cache, w)[w]]

----------------------------------------------------------------------------
(* Threads that run the ALLCHARS step of _filter_item on one engine: the  *)
(* steps of _search_for_query and the search that follows                 *)

Threads == {1, 2}

(* no compiled pattern, no match object *)
NoSearch == <<>>

NoMatch == [start |-> -1, end |-> -1]

(* a thread about to call self._search_for_query(query) for value *)
ThreadAt(q, v) ==
  [pc |-> "check", query |-> q, value |-> v, hit |-> FALSE,
   search |-> NoSearch, match |-> NoMatch]

(* no thread runs *)
ThreadsNew == threads = <<>>

(* query in self._search_pattern_cache, and the return of the cached      *)
(* search when it is                                                      *)
Checked(thread, cache) ==
  IF thread.query \in DOMAIN cache
    THEN [thread EXCEPT !.pc = "search", !.hit = TRUE,
                        !.search = cache[thread.query]]
    ELSE [thread EXCEPT !.pc = "compile"]

(* the pattern is built and compiled *)
Compiled(thread) ==
  [thread EXCEPT !.pc = "insert", !.search = Pattern(thread.query)]

(* mutant: the insertion drops the other entries of the cache *)
InsertedAlone(cache, q, search) == [w \in {q} |-> search]

(* self._search_pattern_cache[query] = search *)
Inserted(cache, q, search) ==
  [w \in DOMAIN cache \cup {q} |-> IF w = q THEN search ELSE cache[w]]

(* match = search(value) *)
Searched(thread) ==
  [thread EXCEPT !.pc = "done", !.match = Search(thread.search, thread.value)]

----------------------------------------------------------------------------
(* The scores as the code computes them: Python floats, IEEE 754 binary64 *)
(* with rounding to nearest, ties to even.  A positive float is the set   *)
(* of the exponents of the powers of two it is the sum of, 0.0 the empty  *)
(* set; a set that spans more than 53 exponents is an exact value that    *)
(* has not been rounded yet                                               *)

(* the bits of the significand of a float *)
Precision == 53

SetMax(S) == CHOOSE x \in S : \A y \in S : y <= x

(* the number of ones at exponent k in A, in B and in the carry *)
OnesAt(A, B, k, carry) ==
  (IF k \in A THEN 1 ELSE 0) + (IF k \in B THEN 1 ELSE 0)
    + (IF carry THEN 1 ELSE 0)

(* the sum of A and B from exponent k up to exponent hi and the carry out *)
RECURSIVE AddFrom(_, _, _, _, _)
AddFrom(A, B, k, hi, carry) ==
  IF k > hi THEN (IF carry THEN {k} ELSE {})
  ELSE (IF OnesAt(A, B, k, carry) % 2 = 1 THEN {k} ELSE {})
         \cup AddFrom(A, B, k + 1, hi, OnesAt(A, B, k, carry) >= 2)

(* A + B, exactly *)
ExactAdd(A, B) ==
  IF A = {} THEN B
  ELSE IF B = {} THEN A
  ELSE AddFrom(A, B, SetMin(A \cup B), SetMax(A \cup B), FALSE)

(* what is left at exponent k of A when B and the borrow are taken off *)
LeftAt(A, B, k, borrow) ==
  (IF k \in A THEN 1 ELSE 0) - (IF k \in B THEN 1 ELSE 0)
    - (IF borrow THEN 1 ELSE 0)

(* A - B from exponent k up to exponent hi, for A > B *)
RECURSIVE SubFrom(_, _, _, _, _)
SubFrom(A, B, k, hi, borrow) ==
  IF k > hi THEN {}
  ELSE (IF LeftAt(A, B, k, borrow) % 2 = 1 THEN {k} ELSE {})
         \cup SubFrom(A, B, k + 1, hi, LeftAt(A, B, k, borrow) < 0)

(* A - B, exactly, for A > B *)
ExactSub(A, B) ==
  IF B = {} THEN A
  ELSE SubFrom(A, B, SetMin(A \cup B), SetMax(A \cup B), FALSE)

(* the float nearest to the exact value S, ties to even *)
RoundNearestEven(S) ==
  IF S = {} THEN {}
  ELSE LET low == SetMax(S) - (Precision - 1)
           kept == {k \in S : k >= low}
           up == /\ (low - 1) \in S
                 /\ (low \in S \/ \E k \in S : k < low - 1)
       IN  IF up THEN ExactAdd(kept, {low}) ELSE kept

(* float(n) for an int 0 <= n < 2^31 *)
FloatOfInt(n) == {k \in 0..30 : (n \div (2 ^ k)) % 2 = 1}

(* the lowest exponent of a quotient that is computed bit by bit; what    *)
(* lies below is kept as one bit under it when it is not zero             *)
QuotientLow == 0 - (Precision + 11)

(* the bits of r / b from exponent k down, for r < b *)
RECURSIVE FractionBits(_, _, _)
FractionBits(r, b, k) ==
  IF k < QuotientLow THEN (IF r # 0 THEN {k} ELSE {})
  ELSE IF 2 * r >= b THEN {k} \cup FractionBits(2 * r - b, b, k - 1)
  ELSE FractionBits(2 * r, b, k - 1)

(* a / b for two ints a >= 0 and b > 0, as a float *)
FloatDiv(a, b) ==
  RoundNearestEven(FloatOfInt(a \div b) \cup FractionBits(a % b, b, -1))

(* x + y for two floats *)
FloatAdd(x, y) == RoundNearestEven(ExactAdd(x, y))

(* base - (a / b), both operations in floats, for base > a / b *)
FloatBaseMinus(base, a, b) ==
  RoundNearestEven(ExactSub(FloatOfInt(base), FloatDiv(a, b)))

(* the score of a rule that holds, as _filter_item computes it *)
FloatRuleScore(rule, v, q) ==
  CASE rule = MATCH_STARTSWITH -> FloatBaseMinus(ScoreBase, Len(v), Len(q))
    [] rule = MATCH_CAPITALS ->
         FloatBaseMinus(ScoreBase, Len(Capitals(v)), Len(q))
    [] rule = MATCH_ATOM -> FloatBaseMinus(ScoreBase, Len(v), Len(q))
    [] rule = MATCH_INITIALS_STARTSWITH ->
         FloatBaseMinus(ScoreBase, Len(Initials(v)), Len(q))
    [] rule = MATCH_INITIALS_CONTAIN ->
         FloatBaseMinus(InitialsContainBase, Len(Initials(v)), Len(q))
    [] rule = MATCH_SUBSTRING ->
         FloatBaseMinus(SubstringBase, Len(v), Len(q))
    [] rule = MATCH_ALLCHARS ->
         FloatDiv(ScoreBase,
                  (1 + Search(Pattern(q), v).start)
                    * (Search(Pattern(q), v).end
                         - Search(Pattern(q), v).start + 1))

(* the score _filter_item returns for value v and word q, 0 for no match *)
FloatItemScore(v, q, mask, fold) ==
  IF _filter_item(v, q, mask, fold).rule = None THEN {}
  ELSE FloatRuleScore(_filter_item(v, q, mask, fold).rule,
                      FoldedValue(v, q, fold), Lower(q))

(* the loop over the words for one value: score += s in the order of the  *)
(* words, skip set when a word scores 0                                   *)
RECURSIVE FloatScoreWords(_, _, _, _, _)
FloatScoreWords(v, ws, mask, fold, acc) ==
  IF ws = <<>> THEN acc
  ELSE FloatScoreWords(
         v, Tail(ws), mask, fold,
         [score |-> FloatAdd(acc.score,
                             FloatItemScore(v, Head(ws), mask, fold)),
          skip |-> acc.skip \/ FloatItemScore(v, Head(ws), mask, fold) = {}])

(* whether the value is among the results for the words ws, and its      *)
(* total score if it is                                                   *)
FloatTotal(v, ws, mask, fold) ==
  LET looped == FloatScoreWords(v, ws, mask, fold,
                                [score |-> {}, skip |-> FALSE])
  IN  IF looped.skip \/ looped.score = {}
        THEN [returned |-> FALSE, score |-> {}]
        ELSE [returned |-> TRUE, score |-> looped.score]

(* no filter call scored yet *)
NoScores == [ws \in {} |-> {}]

ScoresNew == scores = NoScores

----------------------------------------------------------------------------
(* settings.py: Settings, and Workflow.settings *)

(* an empty dict *)
EmptyDict == [k \in {} |-> TRUE]

(* the settings file: absent, or a JSON object *)
NoFile == [exists |-> FALSE, data |-> EmptyDict]

FileOf(d) == [exists |-> TRUE, data |-> d]

NoError == "none"

(* d[k] = v *)
Put(d, k, v) == [x \in DOMAIN d \cup {k} |-> IF x = k THEN v ELSE d[x]]

(* del d[k] *)
Remove(d, k) == [x \in DOMAIN d \ {k} |-> d[x]]

(* dict.update(d, e) *)
Merge(d, e) ==
  [x \in DOMAIN d \cup DOMAIN e |-> IF x \in DOMAIN e THEN e[x] ELSE d[x]]

(* Settings(filepath, defaults) with no defaults: the file is loaded when *)
(* it exists, _load keeping a copy of its content as _original            *)
SettingsInit(file) ==
  [dict |-> IF file.exists THEN file.data ELSE EmptyDict,
   original |-> IF file.exists THEN file.data ELSE EmptyDict,
   file |-> file,
   raised |-> NoError]

(* Settings.save outside _load: json.dump is called with the keyword      *)
(* encoding, which the json module of Python 3 does not accept: TypeError *)
(* is raised before anything is written, and the writer being atomic the  *)
(* file is left as it was                                                 *)
save(s) == [s EXCEPT !.raised = "TypeError"]

(* Settings.__setitem__: nothing is done when value equals what _load     *)
(* read for key                                                           *)
setitem(s, k, v) ==
  IF k \in DOMAIN s.original /\ s.original[k] = v THEN s
  ELSE save([s EXCEPT !.dict = Put(s.dict, k, v)])

(* Settings.__delitem__ *)
delitem(s, k) ==
  IF k \notin DOMAIN s.dict THEN [s EXCEPT !.raised = "KeyError"]
  ELSE save([s EXCEPT !.dict = Remove(s.dict, k)])

(* Settings.update *)
update(s, d) == save([s EXCEPT !.dict = Merge(s.dict, d)])

(* Settings.setdefault *)
setdefault(s, k, v) ==
  save([s EXCEPT !.dict = IF k \in DOMAIN s.dict THEN s.dict
                          ELSE Put(s.dict, k, v)])

(* Workflow.settings: a Settings object is made, from the file, whenever  *)
(* self._settings is None or an empty dict                                *)
SettingsProperty(stg, orig, file) ==
  IF DOMAIN stg = {} THEN SettingsInit(file)
  ELSE [dict |-> stg, original |-> orig, file |-> file, raised |-> NoError]

----------------------------------------------------------------------------
(* Workflow.cached_data, cache_data and cached_data_age, for one name *)

(* _cache_serializer before the setter of cache_serializer has run:       *)
(* __init__ does not assign the attribute                                 *)
Unset == "unset"

(* the serializers registered with the manager; 'pickle' is the same      *)
(* class as 'cpickle' but for its name                                    *)
Serializers == {"cpickle", "json"}

(* no cache file *)
Absent == [exists |-> FALSE, data |-> [format |-> "none", obj |-> None],
           age |-> 0]

(* the cache files of the name, the serializer's name being the extension *)
NoCacheFiles == [ser \in Serializers |-> Absent]

(* serializer.dump(obj, file_obj): CPickleSerializer pickles the object;  *)
(* JSONSerializer passes the keyword encoding to json.dump and raises     *)
(* TypeError                                                              *)
DumpRaises(ser) == ser = "json"

Dump(ser, obj) == [format |-> ser, obj |-> obj]

(* serializer.load(file_obj) *)
Load(data) == data.obj

(* a file written now *)
Written(ser, obj) == [exists |-> TRUE, data |-> Dump(ser, obj), age |-> 0]

(* the outcome of a call: the files, the value returned, the exception    *)
(* and the number of calls of data_func                                   *)
Outcome(files, ret, exc, calls) ==
  [files |-> files, returned |-> ret, raised |-> exc, calls |-> calls]

(* cached_data_age(name): 0 if the file does not exist *)
cached_data_age(ser, files) ==
  IF ~files[ser].exists THEN 0 ELSE files[ser].age

(* cache_data(name, data) *)
cache_data(ser, files, data, calls) ==
  IF ser = Unset THEN Outcome(files, None, "AttributeError", calls)
  ELSE IF data = None
         THEN Outcome([files EXCEPT ![ser] = Absent], None, NoError, calls)
  ELSE IF DumpRaises(ser) THEN Outcome(files, None, "TypeError", calls)
  ELSE Outcome([files EXCEPT ![ser] = Written(ser, data)], None, NoError,
               calls)

(* the value cached_data returns after cache_data(name, data) *)
Returning(out, data) ==
  IF out.raised = NoError THEN [out EXCEPT !.returned = data] ELSE out

(* cached_data(name, data_func, max_age); given says whether data_func    *)
(* was passed, produces is what it returns                                *)
cached_data(ser, files, given, produces, max_age) ==
  IF ser = Unset THEN Outcome(files, None, "AttributeError", 0)
  ELSE IF /\ cached_data_age(ser, files) < max_age \/ max_age = 0
          /\ files[ser].exists
         THEN Outcome(files, Load(files[ser].data), NoError, 0)
  ELSE IF ~given THEN Outcome(files, None, NoError, 0)
  ELSE Returning(cache_data(ser, files, produces, 1), produces)

(* no call of the cache methods yet *)
NoCacheArgs ==
  [given |-> FALSE, data |-> None, max_age |-> 0]

(* the cache of a new engine, the cache directory holding files *)
CacheNew(files) ==
  /\ cache_serializer = Unset
  /\ cache_files = files
  /\ cache_args = NoCacheArgs
  /\ cache_returned = None
  /\ data_func_calls = 0

----------------------------------------------------------------------------
(* Version of workflow/version.py: a version string parsed into major,    *)
(* minor, patch, pre-release suffix and build, and its comparisons        *)

DecimalDigits == {"0", "1", "2", "3", "4", "5", "6", "7", "8", "9"}

(* str.isdigit(): not empty and decimal digits only *)
isdigit(p) == p # <<>> /\ \A i \in 1..Len(p) : p[i] \in DecimalDigits

(* int(p) for a string of decimal digits *)
RECURSIVE ToInt(_)
ToInt(p) ==
  IF p = <<>> THEN 0
  ELSE 10 * ToInt(SubSeq(p, 1, Len(p) - 1)) + (Ord(p[Len(p)]) - 48)

(* str(n) for an int n >= 0 *)
RECURSIVE Str(_)
Str(n) ==
  LET digit == CHOOSE c \in DecimalDigits : Ord(c) = 48 + (n % 10)
  IN  IF n < 10 THEN <<digit>> ELSE Str(n \div 10) \o <<digit>>

(* one element of a parsed dotted string: an int n or a string s *)
IntPart(n) == [int |-> TRUE, n |-> n, s |-> <<>>]

StrPart(p) == [int |-> FALSE, n |-> 0, s |-> p]

(* Version._parse_dotted_string: the parts between the dots, the parts of *)
(* digits as ints                                                         *)
_parse_dotted_string(s) ==
  LET parts == SplitOn(s, {"."})
  IN  [i \in 1..Len(parts) |->
         IF isdigit(parts[i]) THEN IntPart(ToInt(parts[i]))
         ELSE StrPart(parts[i])]

(* the two groups of the regular expression match_version on a string    *)
(* that starts with a digit: the longest run of digits and dots, and the  *)
(* rest                                                                   *)
match_version(vstr) ==
  LET other == {i \in 1..Len(vstr) : vstr[i] \notin DecimalDigits \cup {"."}}
      stop == IF other = {} THEN Len(vstr) + 1 ELSE SetMin(other)
  IN  [version |-> SubSeq(vstr, 1, stop - 1),
       suffix |-> SubSeq(vstr, stop, Len(vstr))]

(* Version(vstr) for a version string _parse accepts: up to three parts   *)
(* of digits, then "-" and a pre-release suffix, then "+" and build info  *)
Version(vstr) ==
  LET m == match_version(vstr)
      parts == _parse_dotted_string(m.version)
      plus == {i \in 1..Len(m.suffix) : m.suffix[i] = "+"}
      idx == IF plus = {} THEN Len(m.suffix) + 1 ELSE SetMin(plus)
      pre == SubSeq(m.suffix, 1, idx - 1)
  IN  [major |-> parts[1].n,
       minor |-> IF Len(parts) > 1 THEN parts[2].n ELSE 0,
       patch |-> IF Len(parts) > 2 THEN parts[3].n ELSE 0,
       suffix |-> IF pre = <<>> THEN <<>> ELSE SubSeq(pre, 2, Len(pre)),
       build |-> SubSeq(m.suffix, idx + 1, Len(m.suffix))]

(* Version.tuple *)
VersionTuple(v) == <<v.major, v.minor, v.patch, v.suffix>>

(* t < o for two tuples of three ints *)
TupleLess(t, o) ==
  \E i \in 1..3 : t[i] < o[i] /\ \A j \in 1..(i - 1) : t[j] = o[j]

(* str(s) of a part *)
PartStr(part) == IF part.int THEN Str(part.n) ELSE part.s

(* the loop over zip_longest(self_suffix, other_suffix) of __lt__, and    *)
(* the return False the method ends with when the loop runs out           *)
RECURSIVE SuffixLess(_, _)
SuffixLess(self_suffix, other_suffix) ==
  IF self_suffix = <<>> /\ other_suffix = <<>> THEN FALSE
  ELSE IF self_suffix = <<>> THEN TRUE
  ELSE IF other_suffix = <<>> THEN FALSE
  ELSE IF Head(self_suffix).int # Head(other_suffix).int
    THEN IF PartStr(Head(self_suffix)) = PartStr(Head(other_suffix))
           THEN SuffixLess(Tail(self_suffix), Tail(other_suffix))
           ELSE StrLess(PartStr(Head(self_suffix)),
                        PartStr(Head(other_suffix)))
  ELSE IF Head(self_suffix) = Head(other_suffix)
    THEN SuffixLess(Tail(self_suffix), Tail(other_suffix))
  ELSE IF Head(self_suffix).int
    THEN Head(self_suffix).n < Head(other_suffix).n
  ELSE StrLess(Head(self_suffix).s, Head(other_suffix).s)

(* Version.__lt__ *)
Version_lt(self, other) ==
  LET t == SubSeq(VersionTuple(self), 1, 3)
      o == SubSeq(VersionTuple(other), 1, 3)
  IN  IF TupleLess(t, o) THEN TRUE
      ELSE IF t = o
        THEN IF self.suffix # <<>> /\ other.suffix = <<>> THEN TRUE
             ELSE IF other.suffix # <<>> /\ self.suffix = <<>> THEN FALSE
             ELSE SuffixLess(_parse_dotted_string(self.suffix),
                             _parse_dotted_string(other.suffix))
      ELSE FALSE

(* Version.__eq__ *)
Version_eq(self, other) == VersionTuple(self) = VersionTuple(other)

(* Version.__ne__ *)
Version_ne(self, other) == ~Version_eq(self, other)

(* Version.__gt__ *)
Version_gt(self, other) == Version_lt(other, self)

(* Version.__le__ *)
Version_le(self, other) == ~Version_lt(other, self)

(* Version.__ge__ *)
Version_ge(self, other) == ~Version_lt(self, other)

(* no comparison made yet *)
NotCompared ==
  [lt |-> FALSE, eq |-> FALSE, ne |-> FALSE, gt |-> FALSE, le |-> FALSE,
   ge |-> FALSE]

(* no Version objects compared *)
VersionNew ==
  /\ self_version = <<>>
  /\ other_version = <<>>
  /\ compared = NotCompared

----------------------------------------------------------------------------
(* Download of workflow/update.py and latest_download, check_update and   *)
(* install_update of workflow/version.py.  wf() is one engine, made on    *)
(* its first call; the functions use its cache under two names: the       *)
(* releases of the repo and the update status                             *)

(* the downloads told apart, named by their index: the version of the     *)
(* release, whether it is a pre-release, and the digits of the extension  *)
(* .alfredXworkflow of the file (none for .alfredworkflow)                *)
DownloadTable ==
  << [version |-> <<"1", ".", "0", ".", "1">>, prerelease |-> FALSE,
      ext |-> <<>>],
     [version |-> <<"2", "-", "b">>, prerelease |-> TRUE, ext |-> <<>>],
     [version |-> <<"2">>, prerelease |-> FALSE, ext |-> <<"5">>] >>

DownloadIds == 1..Len(DownloadTable)

(* the Download objects: Download.__init__ parses the version, and        *)
(* Download.alfred_version is Version("0") for a file without digits in   *)
(* its extension                                                          *)
Downloads ==
  [d \in DownloadIds |->
     [version |-> Version(DownloadTable[d].version),
      prerelease |-> DownloadTable[d].prerelease,
      alfred_version |-> IF DownloadTable[d].ext = <<>>
                           THEN Version(<<"0">>)
                           ELSE Version(DownloadTable[d].ext)]]

(* Download.__lt__ *)
Download_lt(self, other) ==
  IF Version_ne(Downloads[self].version, Downloads[other].version)
    THEN Version_lt(Downloads[self].version, Downloads[other].version)
    ELSE Version_lt(Downloads[self].alfred_version,
                    Downloads[other].alfred_version)

(* dls.sort(reverse=True) on downloads no two of which are equal in *)
(* version and minimum Alfred version                               *)
Newest(dls) == CHOOSE d \in dls : \A e \in dls \ {d} : Download_lt(e, d)

RECURSIVE SortDownloads(_)
SortDownloads(dls) ==
  IF dls = {} THEN <<>>
  ELSE <<Newest(dls)>> \o SortDownloads(dls \ {Newest(dls)})

(* the JSON text of the releases endpoint, named by a number: one more    *)
(* than the sum of 2^(d-1) over the downloads d it lists                  *)
ReleasesOf(js) ==
  {d \in DownloadIds : ((js - 1) \div (2 ^ (d - 1))) % 2 = 1}

(* the JSON text that lists the downloads dls *)
RECURSIVE ReleasesJson(_)
ReleasesJson(dls) ==
  IF dls = {} THEN 1
  ELSE 2 ^ (Newest(dls) - 1) + ReleasesJson(dls \ {Newest(dls)})

(* the answers of the releases endpoint told apart *)
AllReleases ==
  {ReleasesJson(dls) : dls \in {{}, {3}, DownloadIds}}

(* Download.from_releases(js) *)
from_releases(js) == SortDownloads(ReleasesOf(js))

(* the update status, named by a number: no_update, a status that says    *)
(* available without download information, and the status check_update   *)
(* caches for download d                                                  *)
no_update == 1

AvailableNoDownload == 2

Available(dl) == 2 + dl

AllStatuses == 1..(2 + Len(DownloadTable))

(* status.get('available') *)
StatusAvailable(status) == status >= AvailableNoDownload

(* status.get('download'): None, or the download *)
StatusDownload(status) ==
  IF status > AvailableNoDownload THEN status - 2 ELSE None

(* max_age of the cached releases in get_downloads *)
ReleasesMaxAge == 60

(* get_downloads(repo): the releases, from the cache when it holds them   *)
(* and they are younger than a minute, else fetched and cached            *)
get_downloads(ser, releases, fetched) ==
  cached_data(ser, releases, TRUE, fetched, ReleasesMaxAge)

(* the loop of latest_download over the sorted downloads *)
RECURSIVE FirstEligible(_, _, _)
FirstEligible(dls, version, prereleases) ==
  IF dls = <<>> THEN None
  ELSE IF Downloads[Head(dls)].prerelease /\ ~prereleases
    THEN FirstEligible(Tail(dls), version, prereleases)
  ELSE IF Version_gt(Downloads[Head(dls)].alfred_version, version)
    THEN FirstEligible(Tail(dls), version, prereleases)
  ELSE Head(dls)

(* latest_download(dls, alfred_version, prereleases), the version of the  *)
(* running Alfred being given                                             *)
latest_download(dls, running, prereleases) ==
  FirstEligible(SortDownloads({dls[i] : i \in 1..Len(dls)}),
                Version(running), prereleases)

(* the outcome of check_update or install_update: the cache files of the  *)
(* releases and of the status, the value returned ("none" when the call   *)
(* raised), the exception, and the download opened                        *)
UpdateOutcome(releases, status, returned, exc, open) ==
  [releases |-> releases, status |-> status, returned |-> returned,
   raised |-> exc, open |-> open]

(* what a function returns after a call of the cache that may raise *)
ReturnedAfterCache(out, returned) ==
  IF out.raised = NoError THEN returned ELSE "none"

(* the end of check_update: the status is cached and the value returned *)
CheckUpdateEnd(ser, releases, status, cached, returned) ==
  LET stored == cache_data(ser, status, cached, 0)
  IN  UpdateOutcome(releases, stored.files,
                    ReturnedAfterCache(stored, returned), stored.raised,
                    None)

(* check_update after get_downloads has returned the downloads dls *)
CheckDownloads(ser, releases, status, dls, current, prereleases, running) ==
  LET latest == latest_download(dls, running, prereleases)
  IN  IF Len(dls) = 0
        THEN CheckUpdateEnd(ser, releases, status, no_update, "False")
      ELSE IF latest = None
        THEN CheckUpdateEnd(ser, releases, status, no_update, "False")
      ELSE IF Version_gt(Downloads[latest].version, Version(current))
        THEN CheckUpdateEnd(ser, releases, status, Available(latest), "True")
      ELSE CheckUpdateEnd(ser, releases, status, no_update, "False")

(* check_update(repo, current_version, prereleases, alfred_version);      *)
(* fetched is what the releases endpoint answers if it is asked           *)
check_update(ser, releases, status, fetched, current, prereleases, running) ==
  LET got == get_downloads(ser, releases, fetched)
  IN  IF got.raised # NoError
        THEN UpdateOutcome(got.files, status, "none", got.raised, None)
      ELSE CheckDownloads(ser, got.files, status, from_releases(got.returned),
                          current, prereleases, running)

(* the end of install_update: the download is opened, then the status is  *)
(* reset                                                                  *)
InstallEnd(ser, releases, status, dl) ==
  LET reset == cache_data(ser, status, no_update, 0)
  IN  UpdateOutcome(releases, reset.files, ReturnedAfterCache(reset, "True"),
                    reset.raised, dl)

(* install_update() after the cached status was read *)
InstallStatus(ser, releases, status, cached) ==
  IF cached = None \/ ~StatusAvailable(cached)
    THEN UpdateOutcome(releases, status, "False", NoError, None)
  ELSE IF StatusDownload(cached) = None
    THEN UpdateOutcome(releases, status, "False", NoError, None)
  ELSE InstallEnd(ser, releases, status, StatusDownload(cached))

(* install_update(), the download succeeding *)
install_update(ser, releases, status) ==
  LET read == cached_data(ser, status, FALSE, None, 0)
  IN  IF read.raised # NoError
        THEN UpdateOutcome(releases, status, "none", read.raised, None)
      ELSE InstallStatus(ser, releases, status, read.returned)

(* no call of check_update or install_update yet *)
NoUpdateArgs ==
  [current_version |-> <<>>, prereleases |-> FALSE, alfred_version |-> <<>>]

(* a new process: no cached releases, nothing called, nothing opened *)
UpdateNew ==
  /\ releases_files = NoCacheFiles
  /\ update_args = NoUpdateArgs
  /\ update_returned = "none"
  /\ opened = <<>>

----------------------------------------------------------------------------
(* Inputs *)

StringsUpTo(chars, n) == UNION {[1..k -> chars] : k \in 0..n}

(* keys so long that a rule's base score is used up *)
LongKeys == {LongKey(ScoreBase), LongKey(ScoreBase + 1)}

QueryChars == {"a", "b", " "}

Queries == StringsUpTo(QueryChars, MaxQueryLen)

ItemLists == UNION {[1..k -> DOMAIN CandidateStrings] : k \in 0..MaxItems}

MinScores == {0, ScoreBase - 3}

FilterMasks == {MATCH_ALL, MATCH_STARTSWITH}

(* the values and words _filter_item is called with: trimmed, not empty *)
ValueChars == {"a", "B", " ", "é"}

(* the keys and queries of the examples in the comments of _filter_item   *)
(* and in the docstring of filter                                         *)
HowIMetYourMother ==
  <<"H", "o", "w", " ", "I", " ", "M", "e", "t", " ", "Y", "o", "u", "r", " ", "M", "o", "t", "h", "e", "r">>

HowIMetYourMotherLower == Lower(HowIMetYourMother)

Himym == <<"h", "i", "m", "y", "m">>

CafeAccented == <<"c", "a", "f", "é">>

Cafe == <<"c", "a", "f", "e">>

ExampleValues == {HowIMetYourMother, HowIMetYourMotherLower, CafeAccented}

ExampleWords == {Himym, Cafe}

(* keys that folding makes longer, or gives capitals and initials *)
FoldingValues == { <<"a", "ß">>, <<"a", " ", "B", "1">> }

Values ==
  {v \in StringsUpTo(ValueChars, MaxKeyLen) : v # <<>> /\ Strip(v) = v}
    \cup LongKeys \cup ExampleValues \cup FoldingValues

WordChars == {"a", "b", "é"}

ItemWords == (StringsUpTo(WordChars, MaxWordLen) \ {<<>>}) \cup ExampleWords

RuleMasks == 0..MATCH_ALL

NoSettings == [k \in {} |-> TRUE]

NoCache == [w \in {} |-> <<>>]

----------------------------------------------------------------------------
(* A call of filter on a new Workflow *)

Init ==
  /\ query \in Queries
  /\ items \in ItemLists
  /\ ascending \in BOOLEAN
  /\ include_score \in BOOLEAN
  /\ min_score \in MinScores
  /\ max_results \in 0..MaxResults
  /\ match_on \in FilterMasks
  /\ fold_diacritics \in BOOLEAN
  /\ settings = NoSettings
  /\ search_pattern_cache = NoCache
  /\ result = <<>>
  /\ pc = "ready"
  /\ value = <<>>
  /\ word = <<>>
  /\ item_result = Miss(FALSE)
  /\ settings_file = NoFile
  /\ settings_original = EmptyDict
  /\ raised = NoError
  /\ last_magic = "none"
  /\ CacheNew(NoCacheFiles)
  /\ ScoresNew
  /\ ThreadsNew
  /\ UpdateNew
  /\ VersionNew

(* the Settings object after a call of filter: self.settings is read for *)
(* a query that is not blank                                              *)
SettingsAfterFilter(q, stg, orig, file) ==
  IF IsBlank(q) THEN [dict |-> stg, original |-> orig]
  ELSE [dict |-> SettingsProperty(stg, orig, file).dict,
        original |-> SettingsProperty(stg, orig, file).original]

(* the call filter(query, items, ...) of the engine, with the arguments   *)
(* held in the variables                                                  *)
FilterCall(q, its, asc, incl, minsc, maxres, mask, fold) ==
  LET stg == SettingsAfterFilter(q, settings, settings_original, settings_file)
      out == filter(q, its, asc, incl, minsc, maxres, mask,
                    EffectiveFold(stg.dict, fold))
  IN  /\ result' = out.returned
      /\ search_pattern_cache' = CacheAfter(search_pattern_cache, out.searched)
      /\ settings' = stg.dict
      /\ settings_original' = stg.original
      /\ raised' = NoError

Filter ==
  /\ pc = "ready"
  /\ FilterCall(query, items, ascending, include_score, min_score,
                max_results, match_on, fold_diacritics)
  /\ pc' = "done"
  /\ UNCHANGED <<query, items, ascending, include_score, min_score,
                 max_results, match_on, fold_diacritics>>
  /\ UNCHANGED <<settings_file, last_magic>>
  /\ UNCHANGED item_vars
  /\ UNCHANGED cache_vars
  /\ UNCHANGED score_vars
  /\ UNCHANGED thread_vars
  /\ UNCHANGED update_vars
  /\ UNCHANGED version_vars

Next == Filter

Spec == Init /\ [][Next]_vars

----------------------------------------------------------------------------
(* A call of filter with chosen arguments, on an engine whose settings    *)
(* file may hold the folding override                                     *)

(* queries with spaces around and between the words, with a non-ASCII     *)
(* word, with a capital                                                   *)
CallQueries ==
  { <<"a">>, <<" ", "a">>, <<"a", " ">>, <<"a", " ", "b">>,
    <<"a", " ", " ", "b">>, <<" ", "a", " ", " ", "b", " ">>,
    <<"ß", " ", "s">>, <<"ß", " ", "a">>, <<"a", "s">>, <<"A", "b">>,
    <<"s">>, <<"ß">>, <<" ">> }

CallItemLists == { <<4>>, <<2, 3>>, <<4, 2>>, <<3, 2, 4>> }

(* bits of match_on that are no rule's *)
UnknownBits == {0, MATCH_ALL + 1, 2 * (MATCH_ALL + 1), 3 * (MATCH_ALL + 1)}

CallMasks == {m + u : m \in {0, MATCH_SUBSTRING, MATCH_ALL}, u \in UnknownBits}

(* the content of settings.json when the engine starts *)
SettingsFiles ==
  {NoFile, FileOf(EmptyDict)}
    \cup {FileOf([k \in {FoldingKey} |-> b]) : b \in BOOLEAN}

InitCall ==
  /\ query \in CallQueries
  /\ items \in CallItemLists
  /\ ascending = FALSE
  /\ include_score \in BOOLEAN
  /\ min_score = 0
  /\ max_results = 0
  /\ match_on \in CallMasks
  /\ fold_diacritics \in BOOLEAN
  /\ settings = NoSettings
  /\ search_pattern_cache = NoCache
  /\ result = <<>>
  /\ pc = "ready"
  /\ value = <<>>
  /\ word = <<>>
  /\ item_result = Miss(FALSE)
  /\ settings_file \in SettingsFiles
  /\ settings_original = EmptyDict
  /\ raised = NoError
  /\ last_magic = "none"
  /\ CacheNew(NoCacheFiles)
  /\ ScoresNew
  /\ ThreadsNew
  /\ UpdateNew
  /\ VersionNew

SpecCall == InitCall /\ [][Next]_vars

----------------------------------------------------------------------------
(* Runs of the workflow: calls of filter on one engine, and the magic     *)
(* arguments foldingon, foldingoff and foldingdefault, after which the    *)
(* run ends and the next one starts with a new engine                     *)

SessionQueries == { <<"a", "s">>, <<"A", "b">>, <<"a">> }

SessionItemLists == { <<4>>, <<2, 3>> }

SessionMasks == {MATCH_ALL, MATCH_ALLCHARS}

InitSession ==
  /\ query = <<>>
  /\ items = <<>>
  /\ ascending = FALSE
  /\ include_score = TRUE
  /\ min_score = 0
  /\ max_results = 0
  /\ match_on = MATCH_ALL
  /\ fold_diacritics = TRUE
  /\ settings = NoSettings
  /\ search_pattern_cache = NoCache
  /\ result = <<>>
  /\ pc = "ready"
  /\ value = <<>>
  /\ word = <<>>
  /\ item_result = Miss(FALSE)
  /\ settings_file \in SettingsFiles
  /\ settings_original = EmptyDict
  /\ raised = NoError
  /\ last_magic = "none"
  /\ CacheNew(NoCacheFiles)
  /\ ScoresNew
  /\ ThreadsNew
  /\ UpdateNew
  /\ VersionNew

(* a call of filter in the current run *)
SessionFilter ==
  /\ \E q \in SessionQueries, its \in SessionItemLists, mask \in SessionMasks,
        fold \in BOOLEAN :
       /\ query' = q
       /\ items' = its
       /\ match_on' = mask
       /\ fold_diacritics' = fold
       /\ FilterCall(q, its, ascending, include_score, min_score, max_results,
                     mask, fold)
  /\ pc' = "done"
  /\ UNCHANGED <<ascending, include_score, min_score, max_results>>
  /\ UNCHANGED <<settings_file, last_magic>>
  /\ UNCHANGED item_vars
  /\ UNCHANGED cache_vars
  /\ UNCHANGED score_vars
  /\ UNCHANGED thread_vars
  /\ UNCHANGED update_vars
  /\ UNCHANGED version_vars

(* the end of a run in which a magic argument made the Settings object   *)
(* s: Workflow.args exits after a magic argument, and an exception        *)
(* of the magic function ends the run as well; the file and the exception *)
(* stay, the engine and its pattern cache are gone                        *)
EndMagicRun(s) ==
  /\ settings_file' = s.file
  /\ raised' = s.raised
  /\ settings' = NoSettings
  /\ settings_original' = EmptyDict
  /\ search_pattern_cache' = NoCache
  /\ pc' = "ready"
  /\ UNCHANGED filter_vars
  /\ UNCHANGED <<match_on, fold_diacritics>>
  /\ UNCHANGED item_vars
  /\ UNCHANGED cache_vars
  /\ UNCHANGED score_vars
  /\ UNCHANGED thread_vars
  /\ UNCHANGED update_vars
  /\ UNCHANGED version_vars

(* workflow:foldingon: self.settings['__workflow_diacritic_folding'] = True *)
FoldOn ==
  /\ last_magic' = "on"
  /\ EndMagicRun(setitem(SettingsProperty(settings, settings_original,
                                          settings_file), FoldingKey, TRUE))

(* workflow:foldingoff *)
FoldOff ==
  /\ last_magic' = "off"
  /\ EndMagicRun(setitem(SettingsProperty(settings, settings_original,
                                          settings_file), FoldingKey, FALSE))

(* the Settings object after fold_default: the key is deleted if present *)
fold_default(s) ==
  IF FoldingKey \in DOMAIN s.dict THEN delitem(s, FoldingKey) ELSE s

(* workflow:foldingdefault *)
FoldDefault ==
  /\ last_magic' = "default"
  /\ EndMagicRun(fold_default(SettingsProperty(settings, settings_original,
                                               settings_file)))

NextSession == SessionFilter \/ FoldOn \/ FoldOff \/ FoldDefault

SpecSession == InitSession /\ [][NextSession]_vars

----------------------------------------------------------------------------
(* A Settings object and the calls of its dict methods. The object is     *)
(* made as Workflow.settings makes it, Settings(filepath, {}); a caller   *)
(* that catches the exception of a call goes on with the object as the    *)
(* call left it                                                           *)

SettingsKeys == {FoldingKey, "name"}

StoredDicts == UNION {[K -> BOOLEAN] : K \in SUBSET SettingsKeys}

(* the Settings object the variables hold, before a call *)
Self ==
  [dict |-> settings, original |-> settings_original, file |-> settings_file,
   raised |-> NoError]

(* the variables after a call that left the Settings object s; pc is the  *)
(* call the caller has just made                                          *)
Called(s) ==
  /\ settings' = s.dict
  /\ settings_original' = s.original
  /\ settings_file' = s.file
  /\ raised' = s.raised
  /\ UNCHANGED filter_vars
  /\ UNCHANGED <<match_on, fold_diacritics, search_pattern_cache, last_magic>>
  /\ UNCHANGED item_vars
  /\ UNCHANGED cache_vars
  /\ UNCHANGED score_vars
  /\ UNCHANGED thread_vars
  /\ UNCHANGED update_vars
  /\ UNCHANGED version_vars

InitSettings ==
  /\ query = <<>>
  /\ items = <<>>
  /\ ascending = FALSE
  /\ include_score = FALSE
  /\ min_score = 0
  /\ max_results = 0
  /\ match_on = MATCH_ALL
  /\ fold_diacritics = TRUE
  /\ search_pattern_cache = NoCache
  /\ result = <<>>
  /\ pc = "ready"
  /\ value = <<>>
  /\ word = <<>>
  /\ item_result = Miss(FALSE)
  /\ last_magic = "none"
  /\ CacheNew(NoCacheFiles)
  /\ ScoresNew
  /\ ThreadsNew
  /\ UpdateNew
  /\ VersionNew
  /\ \E file \in {NoFile} \cup {FileOf(d) : d \in StoredDicts} :
       /\ settings_file = file
       /\ settings = SettingsInit(file).dict
       /\ settings_original = SettingsInit(file).original
       /\ raised = SettingsInit(file).raised

(* settings[k] = v *)
SetItem ==
  /\ pc' = "setitem"
  /\ \E k \in SettingsKeys, v \in BOOLEAN : Called(setitem(Self, k, v))

(* del settings[k] *)
DelItem ==
  /\ pc' = "delitem"
  /\ \E k \in SettingsKeys : Called(delitem(Self, k))

(* settings.update(d) *)
Update ==
  /\ pc' = "update"
  /\ \E d \in StoredDicts : Called(update(Self, d))

(* settings.setdefault(k, v) *)
SetDefault ==
  /\ pc' = "setdefault"
  /\ \E k \in SettingsKeys, v \in BOOLEAN : Called(setdefault(Self, k, v))

NextSettings == SetItem \/ DelItem \/ Update \/ SetDefault

SpecSettings == InitSettings /\ [][NextSettings]_vars

----------------------------------------------------------------------------
(* An engine and its cache: the setter of cache_serializer, calls of      *)
(* cached_data and cache_data, and time passing between the calls         *)

(* the oldest age told apart, in seconds *)
MaxCacheAge == 2

CacheValues == {1, 2}

MaxAges == 0..MaxCacheAge

(* the cache directory at the start: empty, or a file of an earlier run *)
InitCacheFiles ==
  {NoCacheFiles} \cup
  {[NoCacheFiles EXCEPT ![ser] = [Written(ser, 1) EXCEPT !.age = a]] :
     ser \in Serializers, a \in {0, MaxCacheAge}}

InitCache ==
  /\ query = <<>>
  /\ items = <<>>
  /\ ascending = FALSE
  /\ include_score = FALSE
  /\ min_score = 0
  /\ max_results = 0
  /\ match_on = MATCH_ALL
  /\ fold_diacritics = TRUE
  /\ settings = NoSettings
  /\ search_pattern_cache = NoCache
  /\ result = <<>>
  /\ pc = "ready"
  /\ value = <<>>
  /\ word = <<>>
  /\ item_result = Miss(FALSE)
  /\ settings_file = NoFile
  /\ settings_original = EmptyDict
  /\ raised = NoError
  /\ last_magic = "none"
  /\ \E files \in InitCacheFiles : CacheNew(files)
  /\ ScoresNew
  /\ ThreadsNew
  /\ UpdateNew
  /\ VersionNew

(* the variables the cache methods leave alone *)
CacheFrame ==
  /\ UNCHANGED score_vars
  /\ UNCHANGED thread_vars
  /\ UNCHANGED update_vars
  /\ UNCHANGED version_vars
  /\ UNCHANGED filter_vars
  /\ UNCHANGED <<match_on, fold_diacritics, search_pattern_cache>>
  /\ UNCHANGED <<settings, settings_file, settings_original, last_magic>>
  /\ UNCHANGED item_vars

(* the variables after a call with the outcome out *)
CacheCalled(out) ==
  /\ cache_files' = out.files
  /\ cache_returned' = out.returned
  /\ raised' = out.raised
  /\ data_func_calls' = out.calls
  /\ UNCHANGED cache_serializer
  /\ CacheFrame

(* wf.cache_serializer = name: ValueError for a name not registered *)
SetCacheSerializer ==
  /\ pc' = "cache_serializer"
  /\ \E name \in Serializers \cup {"yaml"} :
       /\ cache_serializer' =
            IF name \in Serializers THEN name ELSE cache_serializer
       /\ raised' = IF name \in Serializers THEN NoError ELSE "ValueError"
  /\ UNCHANGED <<cache_files, cache_args, cache_returned, data_func_calls>>
  /\ CacheFrame

(* wf.cached_data(name, data_func, max_age) *)
CachedData ==
  /\ pc' = "cached_data"
  /\ \E given \in BOOLEAN, produces \in CacheValues \cup {None},
        max_age \in MaxAges :
       /\ ~given => produces = None
       /\ cache_args' = [given |-> given, data |-> produces,
                         max_age |-> max_age]
       /\ CacheCalled(cached_data(cache_serializer, cache_files, given,
                                  produces, max_age))

(* wf.cache_data(name, data) *)
CacheData ==
  /\ pc' = "cache_data"
  /\ \E data \in CacheValues \cup {None} :
       /\ cache_args' = [given |-> FALSE, data |-> data, max_age |-> 0]
       /\ CacheCalled(cache_data(cache_serializer, cache_files, data, 0))

(* a second passes: time.time() - st_mtime grows for every file *)
Tick ==
  /\ pc' = "tick"
  /\ \E ser \in Serializers :
       cache_files[ser].exists /\ cache_files[ser].age < MaxCacheAge
  /\ cache_files' =
       [ser \in Serializers |->
          IF cache_files[ser].exists /\ cache_files[ser].age < MaxCacheAge
            THEN [cache_files[ser] EXCEPT !.age = @ + 1]
            ELSE cache_files[ser]]
  /\ UNCHANGED <<cache_serializer, cache_args, cache_returned,
                 data_func_calls, raised>>
  /\ CacheFrame

NextCache == SetCacheSerializer \/ CachedData \/ CacheData \/ Tick

SpecCache == InitCache /\ [][NextCache]_vars

----------------------------------------------------------------------------
(* Two Version objects and their comparisons *)

VersionNumbers == { <<"1">>, <<"1", ".", "0">>, <<"1", ".", "0", ".", "1">>,
                    <<"2">> }

VersionSuffixes ==
  { <<>>, <<"-", "1">>, <<"-", "0", "1">>, <<"-", "2">>, <<"-", "1", "0">>,
    <<"-", "a">>, <<"-", "b">>, <<"-", "1", ".", "a">>,
    <<"-", "a", ".", "1">>, <<"-", "a", ".", "0", "1">>, <<"+", "b">>,
    <<"-", "a", "+", "b">> }

VersionStrings == {n \o x : n \in VersionNumbers, x \in VersionSuffixes}

InitVersion ==
  /\ query = <<>>
  /\ items = <<>>
  /\ ascending = FALSE
  /\ include_score = FALSE
  /\ min_score = 0
  /\ max_results = 0
  /\ match_on = MATCH_ALL
  /\ fold_diacritics = TRUE
  /\ settings = NoSettings
  /\ search_pattern_cache = NoCache
  /\ result = <<>>
  /\ pc = "ready"
  /\ value = <<>>
  /\ word = <<>>
  /\ item_result = Miss(FALSE)
  /\ settings_file = NoFile
  /\ settings_original = EmptyDict
  /\ raised = NoError
  /\ last_magic = "none"
  /\ CacheNew(NoCacheFiles)
  /\ ScoresNew
  /\ ThreadsNew
  /\ UpdateNew
  /\ self_version \in VersionStrings
  /\ other_version \in VersionStrings
  /\ compared = NotCompared

(* a < b, a == b, a != b, a > b, a <= b and a >= b for the two versions *)
Compare ==
  /\ pc = "ready"
  /\ pc' = "compared"
  /\ compared' =
       [lt |-> Version_lt(Version(self_version), Version(other_version)),
        eq |-> Version_eq(Version(self_version), Version(other_version)),
        ne |-> Version_ne(Version(self_version), Version(other_version)),
        gt |-> Version_gt(Version(self_version), Version(other_version)),
        le |-> Version_le(Version(self_version), Version(other_version)),
        ge |-> Version_ge(Version(self_version), Version(other_version))]
  /\ UNCHANGED <<self_version, other_version>>
  /\ UNCHANGED filter_vars
  /\ UNCHANGED <<match_on, fold_diacritics, search_pattern_cache>>
  /\ UNCHANGED settings_vars
  /\ UNCHANGED item_vars
  /\ UNCHANGED cache_vars
  /\ UNCHANGED score_vars
  /\ UNCHANGED thread_vars
  /\ UNCHANGED update_vars

NextVersion == Compare

SpecVersion == InitVersion /\ [][NextVersion]_vars

----------------------------------------------------------------------------
(* A process that checks for updates and installs them: check_update and  *)
(* install_update on the engine wf(), the setter of its cache_serializer, *)
(* and time passing between the calls                                     *)

(* the most downloads opened in one behaviour *)
MaxInstalls == 2

CurrentVersions == { <<"1", ".", "0">>, <<"2">> }

AlfredVersions == { <<"4">>, <<"5">> }

(* the status file at the start: none, or one an earlier process wrote *)
InitStatusFiles ==
  {NoCacheFiles} \cup
  {[NoCacheFiles EXCEPT !["cpickle"] = Written("cpickle", status)] :
     status \in {AvailableNoDownload, Available(1)}} \cup
  {[NoCacheFiles EXCEPT !["json"] = Written("json", Available(1))]}

InitUpdate ==
  /\ query = <<>>
  /\ items = <<>>
  /\ ascending = FALSE
  /\ include_score = FALSE
  /\ min_score = 0
  /\ max_results = 0
  /\ match_on = MATCH_ALL
  /\ fold_diacritics = TRUE
  /\ settings = NoSettings
  /\ search_pattern_cache = NoCache
  /\ result = <<>>
  /\ pc = "ready"
  /\ value = <<>>
  /\ word = <<>>
  /\ item_result = Miss(FALSE)
  /\ settings_file = NoFile
  /\ settings_original = EmptyDict
  /\ raised = NoError
  /\ last_magic = "none"
  /\ \E files \in InitStatusFiles : CacheNew(files)
  /\ ScoresNew
  /\ ThreadsNew
  /\ UpdateNew
  /\ VersionNew

(* the variables check_update and install_update leave alone *)
UpdateFrame ==
  /\ UNCHANGED score_vars
  /\ UNCHANGED thread_vars
  /\ UNCHANGED <<cache_serializer, cache_args, cache_returned,
                 data_func_calls>>
  /\ UNCHANGED version_vars
  /\ UNCHANGED filter_vars
  /\ UNCHANGED <<match_on, fold_diacritics, search_pattern_cache>>
  /\ UNCHANGED <<settings, settings_file, settings_original, last_magic>>
  /\ UNCHANGED item_vars

(* the variables after a call with the outcome out *)
UpdateCalled(out) ==
  /\ releases_files' = out.releases
  /\ cache_files' = out.status
  /\ update_returned' = out.returned
  /\ raised' = out.raised
  /\ opened' = IF out.open = None THEN opened ELSE Append(opened, out.open)
  /\ UpdateFrame

(* check_update(repo, current_version, prereleases, alfred_version) *)
CheckUpdate ==
  /\ pc' = "check_update"
  /\ \E fetched \in AllReleases, current \in CurrentVersions,
        prereleases \in BOOLEAN, running \in AlfredVersions :
       /\ update_args' = [current_version |-> current,
                          prereleases |-> prereleases,
                          alfred_version |-> running]
       /\ UpdateCalled(check_update(cache_serializer, releases_files,
                                    cache_files, fetched, current,
                                    prereleases, running))

(* install_update() *)
InstallUpdate ==
  /\ pc' = "install_update"
  /\ Len(opened) < MaxInstalls
  /\ update_args' = NoUpdateArgs
  /\ UpdateCalled(install_update(cache_serializer, releases_files,
                                 cache_files))

(* a minute passes: the cached releases are no longer fresh *)
Minute ==
  /\ pc' = "minute"
  /\ \E ser \in Serializers :
       releases_files[ser].exists /\ releases_files[ser].age < ReleasesMaxAge
  /\ releases_files' =
       [ser \in Serializers |->
          IF releases_files[ser].exists
            THEN [releases_files[ser] EXCEPT !.age = ReleasesMaxAge]
            ELSE releases_files[ser]]
  /\ UNCHANGED <<cache_files, update_args, update_returned, opened, raised>>
  /\ UpdateFrame

NextUpdate == SetCacheSerializer \/ CheckUpdate \/ InstallUpdate \/ Minute

SpecUpdate == InitUpdate /\ [][NextUpdate]_vars

----------------------------------------------------------------------------
(* Two threads in _filter_item on the same engine *)

ThreadQueries == { <<"a">>, <<"b">>, <<"a", "b">> }

ThreadValues == { <<"a", "b">>, <<"b", "a", " ">> }

(* the cache at the start: empty, or holding the pattern of a word of an  *)
(* earlier call                                                           *)
InitPatternCaches ==
  {NoCache} \cup {_search_for_query(NoCache, q) : q \in ThreadQueries}

InitThreads ==
  /\ query = <<>>
  /\ items = <<>>
  /\ ascending = FALSE
  /\ include_score = FALSE
  /\ min_score = 0
  /\ max_results = 0
  /\ match_on = MATCH_ALL
  /\ fold_diacritics = TRUE
  /\ settings = NoSettings
  /\ search_pattern_cache \in InitPatternCaches
  /\ result = <<>>
  /\ pc = "ready"
  /\ value = <<>>
  /\ word = <<>>
  /\ item_result = Miss(FALSE)
  /\ settings_file = NoFile
  /\ settings_original = EmptyDict
  /\ raised = NoError
  /\ last_magic = "none"
  /\ CacheNew(NoCacheFiles)
  /\ ScoresNew
  /\ UpdateNew
  /\ VersionNew
  /\ threads \in [Threads -> {ThreadAt(q, v) : q \in ThreadQueries,
                                               v \in ThreadValues}]

(* the variables the steps of a thread leave alone *)
ThreadFrame ==
  /\ UNCHANGED filter_vars
  /\ UNCHANGED <<match_on, fold_diacritics>>
  /\ UNCHANGED <<settings, settings_file, settings_original, raised,
                 last_magic>>
  /\ UNCHANGED item_vars
  /\ UNCHANGED cache_vars
  /\ UNCHANGED score_vars
  /\ UNCHANGED update_vars
  /\ UNCHANGED version_vars

(* thread t tests whether its query is in the cache *)
Check(t) ==
  /\ threads[t].pc = "check"
  /\ pc' = "check"
  /\ threads' = [threads EXCEPT ![t] = Checked(@, search_pattern_cache)]
  /\ UNCHANGED search_pattern_cache
  /\ ThreadFrame

(* thread t builds and compiles the pattern *)
Compile(t) ==
  /\ threads[t].pc = "compile"
  /\ pc' = "compile"
  /\ threads' = [threads EXCEPT ![t] = Compiled(@)]
  /\ UNCHANGED search_pattern_cache
  /\ ThreadFrame

(* thread t puts its search into the cache and returns it *)
Store(t) ==
  /\ threads[t].pc = "insert"
  /\ pc' = "insert"
  /\ search_pattern_cache' =
       Inserted(search_pattern_cache, threads[t].query, threads[t].search)
  /\ threads' = [threads EXCEPT ![t].pc = "search"]
  /\ ThreadFrame

(* thread t applies the search to its value *)
SearchValue(t) ==
  /\ threads[t].pc = "search"
  /\ pc' = "search"
  /\ threads' = [threads EXCEPT ![t] = Searched(@)]
  /\ UNCHANGED search_pattern_cache
  /\ ThreadFrame

NextThreads ==
  \E t \in Threads : Check(t) \/ Compile(t) \/ Store(t) \/ SearchValue(t)

SpecThreads == InitThreads /\ [][NextThreads]_vars

----------------------------------------------------------------------------
(* filter called with the words of one query in every order, for one      *)
(* candidate, the scores being floats                                     *)

FloatValues ==
  { <<"a", "a", "a", " ", "b">>, <<"a", "a", "b">>, <<"a", "b">> }

FloatQueries ==
  { <<"a", " ", "a", " ", "a", "a", "b">>,
    <<"a", " ", "b", " ", "a", "a", "b">>,
    <<"a", "a", " ", "a", "b", " ", "b">>,
    <<"a", " ", "a", "a", "b">>,
    <<"a", "b", " ", "b">> }

(* the orders of the words of ws *)
WordOrders(ws) ==
  {[i \in 1..Len(ws) |-> ws[f[i]]] :
     f \in {g \in [1..Len(ws) -> 1..Len(ws)] :
              \A i, j \in 1..Len(ws) : g[i] = g[j] => i = j}}

InitFloat ==
  /\ query \in FloatQueries
  /\ items = <<>>
  /\ ascending = FALSE
  /\ include_score = TRUE
  /\ min_score = 0
  /\ max_results = 0
  /\ match_on = MATCH_ALL
  /\ fold_diacritics = TRUE
  /\ settings = NoSettings
  /\ search_pattern_cache = NoCache
  /\ result = <<>>
  /\ pc = "ready"
  /\ value \in FloatValues
  /\ word = <<>>
  /\ item_result = Miss(FALSE)
  /\ settings_file = NoFile
  /\ settings_original = EmptyDict
  /\ raised = NoError
  /\ last_magic = "none"
  /\ CacheNew(NoCacheFiles)
  /\ UpdateNew
  /\ VersionNew
  /\ ThreadsNew
  /\ scores = NoScores

(* filter(' '.join(ws), [value], include_score=True) for an order ws of   *)
(* the words of the query: whether the value is returned, and its score   *)
FilterWords ==
  /\ pc' = "filter"
  /\ \E ws \in WordOrders(Words(query)) \ DOMAIN scores :
       scores' =
         [o \in DOMAIN scores \cup {ws} |->
            IF o = ws THEN FloatTotal(value, ws, match_on, fold_diacritics)
            ELSE scores[o]]
  /\ UNCHANGED <<query, items, ascending, include_score, min_score,
                 max_results, result, value, word, item_result>>
  /\ UNCHANGED <<match_on, fold_diacritics, search_pattern_cache>>
  /\ UNCHANGED settings_vars
  /\ UNCHANGED cache_vars
  /\ UNCHANGED thread_vars
  /\ UNCHANGED update_vars
  /\ UNCHANGED version_vars

NextFloat == FilterWords

SpecFloat == InitFloat /\ [][NextFloat]_vars

----------------------------------------------------------------------------
(* A call of _filter_item, as filter makes it *)

InitItem ==
  /\ value \in Values
  /\ word \in ItemWords
  /\ match_on \in RuleMasks
  /\ fold_diacritics \in BOOLEAN
  /\ query = <<>>
  /\ items = <<>>
  /\ ascending = FALSE
  /\ include_score = FALSE
  /\ min_score = 0
  /\ max_results = 0
  /\ settings = NoSettings
  /\ search_pattern_cache = NoCache
  /\ result = <<>>
  /\ pc = "ready"
  /\ item_result = Miss(FALSE)
  /\ settings_file = NoFile
  /\ settings_original = EmptyDict
  /\ raised = NoError
  /\ last_magic = "none"
  /\ CacheNew(NoCacheFiles)
  /\ ScoresNew
  /\ ThreadsNew
  /\ UpdateNew
  /\ VersionNew

FilterItem ==
  /\ pc = "ready"
  /\ item_result' = _filter_item(value, word, match_on, fold_diacritics)
  /\ search_pattern_cache' =
       IF _filter_item(value, word, match_on, fold_diacritics).searched
         THEN _search_for_query(search_pattern_cache, Lower(word))
       ELSE search_pattern_cache
  /\ pc' = "done"
  /\ UNCHANGED <<value, word, match_on, fold_diacritics>>
  /\ UNCHANGED settings_vars
  /\ UNCHANGED cache_vars
  /\ UNCHANGED score_vars
  /\ UNCHANGED thread_vars
  /\ UNCHANGED update_vars
  /\ UNCHANGED version_vars
  /\ UNCHANGED filter_vars

NextItem == FilterItem

SpecItem == InitItem /\ [][NextItem]_vars

----------------------------------------------------------------------------
(* Properties of filter, stated on the state after the call *)

Done == pc = "done"

(* the query of the call is empty or has whitespace only *)
BlankQuery == \A i \in 1..Len(query) : query[i] \in Whitespace

Matching == Done /\ ~BlankQuery

(* the flag _filter_item is called with *)
Fold == EffectiveFold(settings, fold_diacritics)

(* the candidate at position i of the value returned for a non-blank query *)
ResultItem(i) == IF include_score THEN result[i][1] ELSE result[i]

(* the score of one word of the query against the key of a candidate *)
WordScore(item, w) == _filter_item(Strip(key(item)), w, match_on, Fold).score

WordRule(item, w) == _filter_item(Strip(key(item)), w, match_on, Fold).rule

RECURSIVE SumWordScores(_, _)
SumWordScores(item, ws) ==
  IF ws = <<>> THEN Zero
  ELSE FracAdd(WordScore(item, Head(ws)), SumWordScores(item, Tail(ws)))

(* the total score of a candidate for the query of the call *)
TotalScore(item) == SumWordScores(item, Words(query))

(* every word of the query scored nonzero against the candidate's key *)
AllWordsScore(item) ==
  \A k \in 1..Len(Words(query)) : WordScore(item, Words(query)[k]) # Zero

FracLeq(x, y) == ~FracLess(y, x)

(* C1: for a non-blank query, a candidate is in filter's output only if   *)
(* every non-empty word of the query scored nonzero against its key; a    *)
(* candidate with one word scoring zero is absent                         *)
C1_AndAcrossWords ==
  Matching => \A i \in 1..Len(result) : AllWordsScore(ResultItem(i))

C1_Witness ==
  /\ Matching
  /\ Len(Words(query)) >= 2
  /\ result # <<>>
  /\ \E i \in 1..Len(items) :
       /\ ~AllWordsScore(items[i])
       /\ \E k \in 1..Len(Words(query)) :
            WordScore(items[i], Words(query)[k]) # Zero
       /\ \A j \in 1..Len(result) : ResultItem(j) # items[i]

(* C2: for an empty or whitespace-only query, filter returns the input    *)
(* items unchanged and in order, whatever the other parameters are        *)
C2_BlankReturnsItems == (Done /\ BlankQuery) => result = items

C2_Witness ==
  /\ Done
  /\ BlankQuery
  /\ query # <<>>
  /\ Len(items) = 2
  /\ items[1] # items[2]
  /\ include_score
  /\ ascending
  /\ min_score # 0
  /\ max_results = 1
  /\ result = items

(* the scores of the returned candidates, in output order *)
ResultScores == [i \in 1..Len(result) |-> TotalScore(ResultItem(i))]

(* the lowercased trimmed keys of the returned candidates *)
ResultKeys == [i \in 1..Len(result) |-> Lower(Strip(key(ResultItem(i))))]

(* C4: with ascending=False the output is ordered by non-increasing total *)
(* score, with ascending=True by non-decreasing total score               *)
C4_OrderedByScore ==
  Matching =>
    \A i, j \in 1..Len(result) :
      i < j => IF ascending THEN FracLeq(ResultScores[i], ResultScores[j])
               ELSE FracLeq(ResultScores[j], ResultScores[i])

(* C4 where no returned score is negative *)
C4_OrderedWhenPositive ==
  (Matching /\ \A i \in 1..Len(result) : ResultScores[i].n > 0) =>
    \A i, j \in 1..Len(result) :
      i < j => IF ascending THEN FracLeq(ResultScores[i], ResultScores[j])
               ELSE FracLeq(ResultScores[j], ResultScores[i])

(* C5: two returned candidates with the same total score are in ascending *)
(* alphabetical order of their lowercased keys, for both values of        *)
(* ascending                                                              *)
C5_TiesAlphabetical ==
  Matching =>
    \A i, j \in 1..Len(result) :
      (i < j /\ ResultScores[i] = ResultScores[j])
        => ~StrLess(ResultKeys[j], ResultKeys[i])

(* C5 for ascending=False only *)
C5_TiesAlphabeticalDescending ==
  (Matching /\ ~ascending) =>
    \A i, j \in 1..Len(result) :
      (i < j /\ ResultScores[i] = ResultScores[j])
        => ~StrLess(ResultKeys[j], ResultKeys[i])

(* the candidates of items, by position, that matched every word *)
MatchedAt == {i \in 1..Len(items) :
                Strip(key(items[i])) # <<>> /\ AllWordsScore(items[i])}

(* those of them that pass the min_score threshold *)
KeptAt == {i \in MatchedAt :
             min_score # 0 => FracLess(FracInt(min_score), TotalScore(items[i]))}

Untruncated ==
  filter(query, items, ascending, include_score, min_score, 0, match_on,
         Fold).returned

IntMin(a, b) == IF a < b THEN a ELSE b

(* C7: max_results = 0 never truncates; max_results = N > 0 returns the   *)
(* first min(N, M) entries of the sorted list, M the number of candidates *)
(* that survive matching and the min_score threshold                      *)
C7_MaxResults ==
  Matching =>
    /\ max_results = 0 => Len(result) = Cardinality(KeptAt)
    /\ max_results > 0 =>
         /\ Len(result) = IntMin(max_results, Cardinality(KeptAt))
         /\ result = SubSeq(Untruncated, 1, Len(result))

C7_Witness ==
  /\ Matching
  /\ max_results > 0
  /\ Cardinality(KeptAt) > max_results
  /\ Len(result) = max_results
  /\ min_score # 0

(* C8 as stated: a candidate whose trimmed key is empty is never in the   *)
(* output, for every query                                                *)
C8_EmptyKeyNeverReturned ==
  Done => \A i \in 1..Len(result) :
            Strip(key(IF BlankQuery THEN result[i] ELSE ResultItem(i))) # <<>>

(* C8 amended: for a non-blank query a candidate whose trimmed key is     *)
(* empty is never in the output                                           *)
C8_EmptyKeyNotMatched ==
  Matching => \A i \in 1..Len(result) : Strip(key(ResultItem(i))) # <<>>

C8_Witness ==
  /\ Matching
  /\ result # <<>>
  /\ \E i \in 1..Len(items) : Strip(key(items[i])) = <<>>

(* C9: with include_score=True every result is (candidate, score, rule)   *)
(* with score the sum of the per-word scores and rule the rule of the     *)
(* last non-empty word of the query                                       *)
C9_ScoreSumLastRule ==
  (Matching /\ include_score) =>
    \A i \in 1..Len(result) :
      /\ Len(result[i]) = 3
      /\ result[i][2] = TotalScore(result[i][1])
      /\ result[i][3] = WordRule(result[i][1], Words(query)[Len(Words(query))])

C9_Witness ==
  /\ Matching
  /\ include_score
  /\ Len(Words(query)) >= 2
  /\ \E i \in 1..Len(result) :
       /\ WordRule(result[i][1], Words(query)[1]) # result[i][3]
       /\ result[i][2] # WordScore(result[i][1], Words(query)[1])

----------------------------------------------------------------------------
(* Properties of _filter_item, stated on the state after the call *)

(* the rules of the mask that yield a nonzero score, by position in       *)
(* RuleOrder, for the value and word of the call                          *)
ScoringRules ==
  LET fv == FoldedValue(value, word, fold_diacritics)
      lq == Lower(word)
  IN  {k \in 1..Len(RuleOrder) :
         /\ BitSet(match_on, RuleOrder[k])
         /\ RuleHolds(RuleOrder[k], fv, lq)
         /\ RuleScore(RuleOrder[k], fv, lq) # Zero}

(* C3: _filter_item returns the score and rule of the first active rule,  *)
(* in priority order, that yields a nonzero score, and (0, None) only     *)
(* when no active rule yields one                                         *)
C3_FirstScoringRule ==
  Done =>
    IF ScoringRules = {} THEN item_result.score = Zero /\ item_result.rule = None
    ELSE LET r == RuleOrder[SetMin(ScoringRules)]
         IN  /\ item_result.rule = r
             /\ item_result.score =
                  RuleScore(r, FoldedValue(value, word, fold_diacritics),
                            Lower(word))

(* C3 on keys short enough for every matching rule to score above zero *)
C3_FirstScoringRuleShortKeys ==
  value \notin LongKeys => C3_FirstScoringRule

(* C10: every score of _filter_item is non-negative, and it is 0 only     *)
(* when no rule matched                                                   *)
C10_ScoreNonNegative ==
  Done => /\ item_result.score.n >= 0
          /\ item_result.score = Zero => item_result.rule = None

C10_ScoreNonNegativeShortKeys ==
  value \notin LongKeys => C10_ScoreNonNegative

----------------------------------------------------------------------------
(* The rule mask *)

(* the seven rule bits *)
RuleBits == {RuleOrder[k] : k \in 1..Len(RuleOrder)}

(* the bit of a rule is set in the match_on of the call *)
ActiveBit(rule) == (match_on \div rule) % 2 = 1

(* the rules, by position in RuleOrder, whose condition holds for the     *)
(* value and word of the call                                             *)
HoldingRules ==
  LET fv == FoldedValue(value, word, fold_diacritics)
      lq == Lower(word)
  IN  {k \in 1..Len(RuleOrder) :
         PreFilter(fv, lq) /\ RuleHolds(RuleOrder[k], fv, lq)}

(* C11: a rule whose bit is not set in match_on never scores and is not   *)
(* evaluated: the rule reported is one of the seven rule bits and its bit *)
(* is set in match_on, a value that matches under inactive rules only     *)
(* gets (0, None), and no pattern is looked up for ALLCHARS when its bit  *)
(* is not set                                                             *)
C11_InactiveRulesNeverScore ==
  Done =>
    /\ item_result.rule # None =>
         item_result.rule \in RuleBits /\ ActiveBit(item_result.rule)
    /\ (\A k \in HoldingRules : ~ActiveBit(RuleOrder[k])) =>
         item_result.score = Zero /\ item_result.rule = None
    /\ ~ActiveBit(MATCH_ALLCHARS) => search_pattern_cache = NoCache

C11_Witness ==
  /\ Done
  /\ match_on # 0
  /\ HoldingRules # {}
  /\ \A k \in HoldingRules : ~ActiveBit(RuleOrder[k])
  /\ item_result.rule = None

----------------------------------------------------------------------------
(* Properties of filter on the chosen arguments *)

(* the rule bits of the match_on of the call *)
KnownBits == match_on % (MATCH_ALL + 1)

(* C12: a bit of match_on outside the seven rule bits is inert: filter    *)
(* returns what it returns for the mask without that bit, a mask of such  *)
(* bits only returns no candidate for a non-blank query, and no error is  *)
(* raised                                                                 *)
C12_UnknownBitsInert ==
  Done =>
    /\ result = filter(query, items, ascending, include_score, min_score,
                       max_results, KnownBits, Fold).returned
    /\ (~BlankQuery /\ KnownBits = 0) => result = <<>>
    /\ raised = NoError

C12_Witness ==
  /\ Matching
  /\ match_on > MATCH_ALL
  /\ KnownBits = MATCH_SUBSTRING
  /\ result # <<>>
  /\ include_score

(* the query of the call has a non-ASCII character *)
QueryNonAscii == \E i \in 1..Len(query) : query[i] \in NonAscii

(* the value filter returns for the same call when no key is folded *)
Unfolded ==
  filter(query, items, ascending, include_score, min_score, max_results,
         match_on, FALSE).returned

(* C13: when the query has a non-ASCII character no key is folded for any *)
(* word of that query, whatever fold_diacritics and the stored override   *)
(* are                                                                    *)
C13_NonAsciiQueryNeverFolds == (Matching /\ QueryNonAscii) => result = Unfolded

(* C13 for the queries whose words all have a non-ASCII character *)
C13_NonAsciiWordsNeverFold ==
  (Matching /\ \A k \in 1..Len(Words(query)) : ~isascii(Words(query)[k]))
    => result = Unfolded

----------------------------------------------------------------------------
(* Folding and the examples, on one call of _filter_item *)

(* the pre-filter and the chain of tests on the key v, for the word and   *)
(* the mask of the call                                                   *)
ChainOn(v) ==
  IF ~PreFilter(v, Lower(word)) THEN Miss(FALSE)
  ELSE RuleChain(v, Lower(word), match_on)

(* C14: for a pure-ASCII word the pre-filter and every rule are evaluated *)
(* on the key with its non-ASCII characters replaced when folding is in   *)
(* effect and on the raw key when it is not: the key 'café' matches the   *)
(* query 'cafe' with fold_diacritics true and not with it false           *)
C14_FoldingOfKeys ==
  (Done /\ isascii(word)) =>
    /\ item_result = IF fold_diacritics THEN ChainOn(FoldChars(value))
                     ELSE ChainOn(value)
    /\ (value = CafeAccented /\ word = Cafe /\ match_on = MATCH_ALL) =>
         IF fold_diacritics
           THEN item_result.rule = MATCH_STARTSWITH /\ item_result.score.n > 0
         ELSE item_result.rule = None /\ item_result.score = Zero

C14_Witness ==
  /\ Done
  /\ value = CafeAccented
  /\ word = Cafe
  /\ match_on = MATCH_ALL
  /\ fold_diacritics
  /\ item_result.rule = MATCH_STARTSWITH

(* the call of the example: 'How I Met Your Mother' against 'himym' *)
HimymCall == Done /\ value = HowIMetYourMother /\ word = Himym

(* C17 as stated: with all rules active, 'How I Met Your Mother' queried  *)
(* with 'himym' is reported under INITIALS_STARTSWITH                     *)
C17_HimymInitialsStartswith ==
  (HimymCall /\ match_on = MATCH_ALL) =>
    item_result.rule = MATCH_INITIALS_STARTSWITH

(* C17 amended: the atoms of the key are How, I, Met, Your, Mother and    *)
(* its initials 'himym'; with all rules active the rule reported is       *)
(* CAPITALS, tested first, whose capitals 'HIMYM' start with the query;   *)
(* INITIALS_STARTSWITH is reported when CAPITALS is not in the mask, and  *)
(* for the key in lower case                                              *)
C17_HimymCapitalsFirst ==
  /\ HimymCall =>
       /\ split_on_delimiters(value) =
            << <<"H", "o", "w">>, <<"I">>, <<"M", "e", "t">>, <<"Y", "o", "u", "r">>, <<"M", "o", "t", "h", "e", "r">> >>
       /\ Initials(value) = Himym
       /\ match_on = MATCH_ALL =>
            item_result.rule = MATCH_CAPITALS /\ item_result.score = FracInt(99)
       /\ match_on = MATCH_ALL - MATCH_CAPITALS =>
            /\ item_result.rule = MATCH_INITIALS_STARTSWITH
            /\ item_result.score = FracInt(99)
  /\ (Done /\ value = HowIMetYourMotherLower /\ word = Himym
        /\ match_on = MATCH_ALL) =>
       /\ item_result.rule = MATCH_INITIALS_STARTSWITH
       /\ item_result.score = FracInt(99)

C17_Witness ==
  /\ HimymCall
  /\ match_on = MATCH_ALL
  /\ item_result.rule = MATCH_CAPITALS

(* the positions of the query that are kept when leading and trailing    *)
(* whitespace and all but the first of a run of spaces are removed        *)
KeptPositions ==
  {i \in 1..Len(query) :
     \/ query[i] \notin Whitespace
     \/ /\ i > 1
        /\ query[i - 1] \notin Whitespace
        /\ \E j \in (i + 1)..Len(query) : query[j] \notin Whitespace}

(* the query of the call without its extra whitespace *)
Canonical ==
  [k \in 1..Cardinality(KeptPositions) |->
     query[CHOOSE i \in KeptPositions :
             Cardinality({j \in KeptPositions : j <= i}) = k]]

(* C18: for a non-blank query, leading or trailing whitespace and extra   *)
(* spaces between the words change neither the candidates returned, nor   *)
(* their order, nor their scores and rules                                *)
C18_QueryNormalised ==
  Matching =>
    result = filter(Canonical, items, ascending, include_score, min_score,
                    max_results, match_on, Fold).returned

C18_Witness ==
  /\ Matching
  /\ Len(query) = Len(Canonical) + 3
  /\ include_score
  /\ Len(result) >= 2

----------------------------------------------------------------------------
(* Properties of the runs of the workflow *)

(* settings.json holds a value for the folding override *)
StoredOverride ==
  settings_file.exists /\ FoldingKey \in DOMAIN settings_file.data

(* the flag a call of filter is to use according to the last magic        *)
(* argument: always folded after foldingon, never after foldingoff, the   *)
(* caller's argument after foldingdefault, and with no magic argument the *)
(* stored value if there is one, else the caller's argument               *)
ExpectedFold ==
  CASE last_magic = "on" -> TRUE
    [] last_magic = "off" -> FALSE
    [] last_magic = "default" -> fold_diacritics
    [] OTHER -> IF StoredOverride THEN settings_file.data[FoldingKey]
                ELSE fold_diacritics

(* the value filter returns for the call when it folds as expected *)
ExpectedResult ==
  filter(query, items, ascending, include_score, min_score, max_results,
         match_on, ExpectedFold).returned

(* C15: the stored setting overrides fold_diacritics on every call of     *)
(* filter: a call whose most recent magic argument is foldingon folds, one *)
(* after foldingoff does not, one after foldingdefault, or with no magic  *)
(* argument and nothing stored, uses the caller's argument                *)
C15_OverrideFollowsMagic == Done => result = ExpectedResult

(* C15 for the calls no magic argument came before *)
C15_OverrideWithoutMagic ==
  (Done /\ last_magic = "none") => result = ExpectedResult

(* the lowercased words of the query q *)
LowerWords(q) == {Lower(Words(q)[i]) : i \in 1..Len(Words(q))}

(* a step that is a call of filter on the current engine *)
FilterStep == pc' = "done"

(* C16: a call of filter only reads the pattern cache and inserts into    *)
(* it: every key stays and keeps its matcher, and a new key is a          *)
(* lowercased word of the query of the call                               *)
C16_CacheOnlyGrows ==
  [][FilterStep =>
       /\ \A w \in DOMAIN search_pattern_cache :
            /\ w \in DOMAIN search_pattern_cache'
            /\ search_pattern_cache'[w] = search_pattern_cache[w]
       /\ \A w \in DOMAIN search_pattern_cache' \ DOMAIN search_pattern_cache :
            w \in LowerWords(query')]_vars

(* the queries the calls of filter are made with *)
SessionWords == UNION {LowerWords(q) : q \in SessionQueries}

(* C16, the keys: every key of the pattern cache is a lowercased word of  *)
(* a query, and its matcher is the one compiled for that word             *)
C16_KeysAreLowerWords ==
  \A w \in DOMAIN search_pattern_cache :
     /\ w \in SessionWords
     /\ w = Lower(w)
     /\ search_pattern_cache[w] = Pattern(w)

(* after a call with the query 'Ab' the cache holds 'ab' next to the      *)
(* words of the calls before                                              *)
C16_Witness ==
  /\ Done
  /\ query = <<"A", "b">>
  /\ <<"a", "b">> \in DOMAIN search_pattern_cache
  /\ Cardinality(DOMAIN search_pattern_cache) >= 3

----------------------------------------------------------------------------
(* Properties of Settings *)

(* settings.json exists and its content is the content of the dict *)
FileEqualsDict == settings_file.exists /\ settings_file.data = settings

(* C19: Settings saves itself when changed: after any sequence of calls   *)
(* of __setitem__, __delitem__, update and setdefault the content of the  *)
(* JSON file equals the content of the dict                               *)
C19_FileEqualsDict == pc # "ready" => FileEqualsDict

(* what the calls do instead: none of them writes the file *)
C19_FileNeverWritten == [][settings_file' = settings_file]_vars

----------------------------------------------------------------------------
(* Properties of the cache methods *)

(* the cache file of the name before the call *)
CacheFile ==
  IF cache_serializer = Unset THEN Absent ELSE cache_files[cache_serializer]

(* the cache file of the name after the call *)
CacheFileAfter ==
  IF cache_serializer' = Unset THEN Absent
  ELSE cache_files'[cache_serializer']

(* the call finds a file it may return: one that exists and is younger    *)
(* than max_age, or of any age when max_age is 0                          *)
CacheHit ==
  /\ CacheFile.exists
  /\ CacheFile.age < cache_args'.max_age \/ cache_args'.max_age = 0

(* the call returned v after n calls of data_func *)
ReturnedAfter(v, n) ==
  /\ raised' = NoError
  /\ cache_returned' = v
  /\ data_func_calls' = n

(* the result of data_func is what the cache holds for the name: None     *)
(* deletes the cache                                                      *)
StoredAfter(v) ==
  IF v = None THEN ~CacheFileAfter.exists
  ELSE CacheFileAfter.exists /\ Load(CacheFileAfter.data) = v

(* what a call of cached_data is to do *)
CachedDataContract ==
  /\ CacheHit =>
       /\ ReturnedAfter(Load(CacheFile.data), 0)
       /\ cache_files' = cache_files
  /\ (~CacheHit /\ cache_args'.given) =>
       /\ ReturnedAfter(cache_args'.data, 1)
       /\ StoredAfter(cache_args'.data)
  /\ (~CacheHit /\ ~cache_args'.given) =>
       /\ ReturnedAfter(None, 0)
       /\ cache_files' = cache_files

(* what a call of cache_data(name, None) is to do *)
CacheDeleteContract ==
  cache_args'.data = None => raised' = NoError /\ ~CacheFileAfter.exists

(* C20: cached_data returns the stored value without calling data_func    *)
(* when a cache file exists and is younger than max_age or max_age is 0;  *)
(* otherwise it calls data_func once, stores the result with cache_data   *)
(* and returns it, or returns None when there is no data_func; after      *)
(* cache_data(name, None) no cache exists for the name                    *)
C20_CachedData ==
  [][/\ pc' = "cached_data" => CachedDataContract
     /\ pc' = "cache_data" => CacheDeleteContract]_vars

(* C20 on an engine whose cache_serializer was set to 'cpickle' *)
C20_CachedDataPickle ==
  [][cache_serializer = "cpickle" =>
       /\ pc' = "cached_data" => CachedDataContract
       /\ pc' = "cache_data" => CacheDeleteContract]_vars

(* cached_data on a new engine raises AttributeError and calls nothing *)
C20_NewEngineRaises ==
  (pc = "cached_data" /\ cache_serializer = Unset) =>
     raised = "AttributeError" /\ data_func_calls = 0

----------------------------------------------------------------------------
(* The score formulas of the rules *)

(* the key the lengths are taken on: trimmed, and folded when folding is  *)
(* in effect                                                              *)
KeyTested ==
  IF fold_diacritics /\ isascii(Lower(word)) THEN fold_to_ascii(value)
  ELSE value

(* the number of ASCII uppercase letters and digits of the key *)
CapitalsCount ==
  Cardinality({i \in 1..Len(KeyTested) : KeyTested[i] \in Upper \cup Digits})

(* the number of non-empty atoms of the key *)
InitialsCount ==
  Cardinality({i \in 1..Len(split_on_delimiters(KeyTested)) :
                 split_on_delimiters(KeyTested)[i] # <<>>})

(* the score reported is base - len / len(word) *)
ScoreIs(base, len) ==
  item_result.score.n * Len(word) =
    item_result.score.d * (base * Len(word) - len)

(* C23: the score of the rule reported follows the rule's formula, the    *)
(* lengths being those of the trimmed and, when folding is in effect,     *)
(* folded key: 100 - len(key)/len(word) for STARTSWITH and ATOM,          *)
(* 100 - len(capitals)/len(word) for CAPITALS, 100 and 95 minus           *)
(* len(initials)/len(word) for the initials rules and                     *)
(* 90 - len(key)/len(word) for SUBSTRING                                  *)
C23_ScoreFormulas ==
  Done =>
    /\ item_result.rule \in {MATCH_STARTSWITH, MATCH_ATOM} =>
         ScoreIs(100, Len(KeyTested))
    /\ item_result.rule = MATCH_CAPITALS => ScoreIs(100, CapitalsCount)
    /\ item_result.rule = MATCH_INITIALS_STARTSWITH =>
         ScoreIs(100, InitialsCount)
    /\ item_result.rule = MATCH_INITIALS_CONTAIN => ScoreIs(95, InitialsCount)
    /\ item_result.rule = MATCH_SUBSTRING => ScoreIs(90, Len(KeyTested))

(* the key 'aß' is folded to 'ass' and starts with 'a': 100 - 3/1 *)
C23_Witness ==
  /\ Done
  /\ value = <<"a", "ß">>
  /\ word = <<"a">>
  /\ fold_diacritics
  /\ item_result.rule = MATCH_STARTSWITH
  /\ Len(KeyTested) = 3
  /\ item_result.score = FracInt(97)

----------------------------------------------------------------------------
(* The pre-filter and the ALLCHARS rule *)

(* the call is on ASCII letters, digits and separators only *)
AsciiCall == isascii(value) /\ isascii(word)

(* the pre-filter rejects the call: a character of the lowercased word    *)
(* does not occur in the lowercased key                                   *)
Rejected == ~(CharSet(Lower(word)) \subseteq CharSet(Lower(KeyTested)))

(* C26: the pre-filter is sound: when it rejects, the condition of none   *)
(* of the seven rules holds, so the chain of rules run without the        *)
(* pre-filter gives the score and the rule _filter_item returned          *)
C26_PreFilterSound ==
  (Done /\ AsciiCall) =>
    /\ Rejected =>
         \A i \in 1..Len(RuleOrder) :
            ~RuleHolds(RuleOrder[i], KeyTested, Lower(word))
    /\ RuleChain(KeyTested, Lower(word), match_on).score = item_result.score
    /\ RuleChain(KeyTested, Lower(word), match_on).rule = item_result.rule

(* a rejected call with every rule active *)
C26_Witness ==
  /\ Done
  /\ AsciiCall
  /\ Rejected
  /\ match_on = MATCH_ALL
  /\ Len(word) = 2
  /\ Len(value) = 3
  /\ item_result.rule = None

(* w occurs in v as a subsequence, whatever the case of the characters *)
RECURSIVE OccursInOrder(_, _)
OccursInOrder(w, v) ==
  IF w = <<>> THEN TRUE
  ELSE IF v = <<>> THEN FALSE
  ELSE IF LowerChar(Head(w)) = LowerChar(Head(v))
         THEN OccursInOrder(Tail(w), Tail(v))
  ELSE OccursInOrder(w, Tail(v))

(* the ends of the in-order occurrences of the word in the key *)
OccurrenceEnds ==
  {e \in 1..Len(KeyTested) : OccursInOrder(word, SubSeq(KeyTested, 1, e))}

(* the key has no newline *)
OneLine == "\n" \notin CharSet(KeyTested)

(* C27: when ALLCHARS matches a key without newline the match starts at   *)
(* 0, so the score is 100 / (end + 1) with end the end of the             *)
(* earliest-ending in-order occurrence of the characters of the word,     *)
(* which is at most 100 / (len(word) + 1)                                 *)
C27_AllCharsScore ==
  (Done /\ item_result.rule = MATCH_ALLCHARS /\ OneLine) =>
    /\ Search(Pattern(Lower(word)), KeyTested).start = 0
    /\ OccurrenceEnds # {}
    /\ item_result.score.n * (SetMin(OccurrenceEnds) + 1) =
         ScoreBase * item_result.score.d
    /\ item_result.score.n * (Len(word) + 1) <=
         ScoreBase * item_result.score.d

(* 'ab' in 'a B': the occurrence ends at 3 and the score is 100 / 4 *)
C27_Witness ==
  /\ Done
  /\ item_result.rule = MATCH_ALLCHARS
  /\ value = <<"a", " ", "B">>
  /\ word = <<"a", "b">>
  /\ item_result.score = FracInt(25)

----------------------------------------------------------------------------
(* The order of candidates that tie *)

(* the first position of a candidate in items *)
InputPosition(item) == SetMin({i \in 1..Len(items) : items[i] = item})

(* the candidates at positions p and q of the output are different and    *)
(* have the same total score and the same lowercased key                  *)
Tie(p, q) ==
  /\ ResultItem(p) # ResultItem(q)
  /\ ResultScores[p] = ResultScores[q]
  /\ ResultKeys[p] = ResultKeys[q]

(* C25: the output is stably ordered: two candidates with the same total  *)
(* score and the same lowercased key are in the order they have in        *)
(* items, for both values of ascending                                    *)
C25_StableOnTies ==
  Matching =>
    \A p, q \in 1..Len(result) :
       (p < q /\ Tie(p, q)) =>
          InputPosition(ResultItem(p)) < InputPosition(ResultItem(q))

(* what the sort does with such a pair: the candidates themselves are     *)
(* compared, the smaller string first, and last when ascending            *)
C25_TiesByCandidate ==
  Matching =>
    \A p, q \in 1..Len(result) :
       (p < q /\ Tie(p, q)) =>
          IF ascending THEN StrLess(key(ResultItem(q)), key(ResultItem(p)))
          ELSE StrLess(key(ResultItem(p)), key(ResultItem(q)))

----------------------------------------------------------------------------
(* Settings.__setitem__ *)

(* the step is the call settings[k] = v, and the call returned *)
SetItemReturned(k, v) ==
  /\ pc' = "setitem"
  /\ raised' = NoError
  /\ setitem(Self, k, v).raised = NoError
  /\ settings' = setitem(Self, k, v).dict
  /\ settings_file' = setitem(Self, k, v).file

(* C29: after settings[key] = value has returned, settings[key] is value  *)
(* and the file holds that value, whatever was done with the object       *)
(* before                                                                 *)
C29_SetItemSets ==
  [][\A k \in SettingsKeys, v \in BOOLEAN :
       SetItemReturned(k, v) =>
         /\ k \in DOMAIN settings' /\ settings'[k] = v
         /\ settings_file'.exists
         /\ k \in DOMAIN settings_file'.data /\ settings_file'.data[k] = v]_vars

(* C29 on an object nothing was done with since it was loaded *)
C29_SetItemFirstCall ==
  [][\A k \in SettingsKeys, v \in BOOLEAN :
       (pc = "ready" /\ SetItemReturned(k, v)) =>
         /\ k \in DOMAIN settings' /\ settings'[k] = v
         /\ settings_file'.exists
         /\ k \in DOMAIN settings_file'.data /\ settings_file'.data[k] = v]_vars

----------------------------------------------------------------------------
(* The order of versions *)

(* C30: of a < b, a == b and b < a exactly one holds for any two          *)
(* versions, so that a <= b and b <= a imply a == b                       *)
C30_ExactlyOne ==
  pc = "compared" =>
    /\ Cardinality({f \in {"lt", "eq", "gt"} : compared[f]}) = 1
    /\ (compared.le /\ compared.ge => compared.eq)

(* C30, the part the code keeps: no two of a < b, a == b and b < a hold   *)
(* together, and versions of different numbers are ordered by the numbers *)
C30_AtMostOne ==
  pc = "compared" =>
    /\ Cardinality({f \in {"lt", "eq", "gt"} : compared[f]}) <= 1
    /\ (SubSeq(VersionTuple(Version(self_version)), 1, 3)
          # SubSeq(VersionTuple(Version(other_version)), 1, 3)
        => compared.lt # compared.gt)

(* two pre-release suffixes that differ are compared *)
C30_Witness ==
  /\ pc = "compared"
  /\ Version(self_version).suffix # Version(other_version).suffix
  /\ Version(self_version).suffix # <<>>
  /\ Version(other_version).suffix # <<>>
  /\ compared.lt

----------------------------------------------------------------------------
(* check_update and install_update *)

(* the downloads of dls that latest_download may return: pre-releases     *)
(* only if they are enabled, and none that needs a newer Alfred           *)
Eligible(dls, args) ==
  {d \in dls :
     /\ Downloads[d].prerelease => args.prereleases
     /\ ~Version_gt(Downloads[d].alfred_version,
                    Version(args.alfred_version))}

(* the newest of the eligible downloads is newer than the current version *)
NewerEligible(dls, args) ==
  /\ Eligible(dls, args) # {}
  /\ Version_gt(Downloads[Newest(Eligible(dls, args))].version,
                Version(args.current_version))

(* the status the claim expects in the cache *)
StatusClaimed(dls, args) ==
  IF NewerEligible(dls, args) THEN Available(Newest(Eligible(dls, args)))
  ELSE no_update

(* the cached value of files that the engine with serializer ser reads;   *)
(* None when there is no file, or no serializer                           *)
CachedBy(ser, files) ==
  IF ser \in Serializers /\ files[ser].exists THEN Load(files[ser].data)
  ELSE None

(* check_update has returned what the claim says for the releases it got, *)
(* and has cached the status the claim says                               *)
CheckedAsClaimed ==
  /\ CachedBy(cache_serializer, releases_files) # None
  /\ update_returned =
       IF NewerEligible(
            ReleasesOf(CachedBy(cache_serializer, releases_files)),
            update_args)
         THEN "True" ELSE "False"
  /\ CachedBy(cache_serializer, cache_files) =
       StatusClaimed(ReleasesOf(CachedBy(cache_serializer, releases_files)),
                     update_args)

(* C21: check_update returns True exactly when the newest eligible        *)
(* download is newer than the current version, and on every return path   *)
(* the cached status has available equal to the value returned, with the  *)
(* version and the download when it is True and without when it is False  *)
C21_CheckUpdate == pc = "check_update" => CheckedAsClaimed

(* C21 on an engine whose cache serializer was set to cpickle: the call   *)
(* returns and caches what the claim says; on the engine as wf() makes it *)
(* the call raises AttributeError and leaves the cache as it was          *)
C21_CheckUpdatePickle ==
  /\ pc = "check_update" /\ cache_serializer = "cpickle" => CheckedAsClaimed
  /\ pc = "check_update" /\ cache_serializer = Unset =>
       /\ raised = "AttributeError"
       /\ update_returned = "none"
       /\ releases_files = NoCacheFiles

(* a call on the cpickle engine that found a newer eligible download *)
C21_Witness ==
  /\ pc = "check_update"
  /\ cache_serializer = "cpickle"
  /\ update_returned = "True"
  /\ Cardinality(ReleasesOf(CachedBy(cache_serializer, releases_files))) > 1

(* the cached status says available and carries a download *)
Installable(status) ==
  status # None /\ StatusAvailable(status) /\ StatusDownload(status) # None

(* install_update as the claim has it: with an installable status the     *)
(* download is opened, the status reset and True returned; otherwise      *)
(* nothing is opened and False returned                                   *)
InstalledAsClaimed ==
  IF Installable(CachedBy(cache_serializer, cache_files))
    THEN /\ update_returned' = "True"
         /\ opened' = Append(opened, StatusDownload(
                                       CachedBy(cache_serializer, cache_files)))
         /\ CachedBy(cache_serializer, cache_files') = no_update
    ELSE /\ update_returned' = "False"
         /\ opened' = opened

(* an install_update that follows an install_update that returned True *)
SecondInstall ==
  pc = "install_update" /\ update_returned = "True" /\ pc' = "install_update"

(* C22: install_update installs only when the cached status says          *)
(* available and carries download information, returning True then and    *)
(* False otherwise; an install_update that follows one that returned True *)
(* returns False and installs nothing                                     *)
C22_InstallUpdate ==
  [][/\ pc' = "install_update" => InstalledAsClaimed
     /\ SecondInstall => update_returned' = "False" /\ opened' = opened]_vars

(* C22 on an engine whose cache serializer was set to cpickle; on the     *)
(* engine as wf() makes it install_update raises AttributeError and       *)
(* opens nothing                                                          *)
C22_InstallUpdatePickle ==
  [][/\ pc' = "install_update" /\ cache_serializer = "cpickle" =>
          /\ InstalledAsClaimed
          /\ SecondInstall => update_returned' = "False" /\ opened' = opened
     /\ pc' = "install_update" /\ cache_serializer = Unset =>
          /\ raised' = "AttributeError"
          /\ update_returned' = "none"
          /\ opened' = opened]_vars

(* a second install_update after one that installed, on the cpickle       *)
(* engine                                                                 *)
C22_Witness ==
  /\ pc = "install_update"
  /\ cache_serializer = "cpickle"
  /\ update_returned = "False"
  /\ Len(opened) = 1
  /\ CachedBy(cache_serializer, cache_files) = no_update

----------------------------------------------------------------------------
(* The pattern cache under two threads *)

(* the cache after the two calls made one after the other: the order of   *)
(* the calls does not show in it                                          *)
SequentialCache(cache, first, second) ==
  _search_for_query(_search_for_query(cache, first), second)

(* the two threads have finished *)
ThreadsDone == \A t \in Threads : threads[t].pc = "done"

(* the cache the behaviour started with: the steps only add entries, and  *)
(* only for the queries of threads that missed                            *)
CacheAtStart ==
  [w \in DOMAIN search_pattern_cache
         \ {threads[t].query : t \in {u \in Threads : ~threads[u].hit}}
     |-> search_pattern_cache[w]]

(* the outcome is one of a sequential execution: the final cache, and for *)
(* each thread the search it got and the match it found                   *)
AsSequential ==
  /\ search_pattern_cache =
       SequentialCache(CacheAtStart, threads[1].query, threads[2].query)
  /\ search_pattern_cache =
       SequentialCache(CacheAtStart, threads[2].query, threads[1].query)
  /\ \A t \in Threads :
       /\ threads[t].search = search_pattern_cache[threads[t].query]
       /\ threads[t].match =
            Search(_search_for_query(CacheAtStart,
                                     threads[t].query)[threads[t].query],
                   threads[t].value)

(* the check-then-insert steps of the two threads overlapped: both looked *)
(* for the same query and both found the cache without it                 *)
Raced ==
  /\ threads[1].query = threads[2].query
  /\ \A t \in Threads : ~threads[t].hit

(* C24: an interleaving of the check-then-insert steps of two threads in  *)
(* _search_for_query produces a result or a final cache that no           *)
(* sequential execution of the two calls produces                         *)
C24_RaceDiverges == ThreadsDone /\ Raced => ~AsSequential

(* C24 as the code has it: whatever the interleaving, each thread gets    *)
(* the pattern of its query and the match of a sequential execution, and  *)
(* the cache ends as after the two calls in sequence; a race only         *)
(* compiles the pattern twice                                             *)
C24_InterleavingsAsSequential == ThreadsDone => AsSequential

(* both threads missed the same query and have finished *)
C24_Witness == ThreadsDone /\ Raced

----------------------------------------------------------------------------
(* The order of the words of a query *)

(* C28: permuting the words of a query changes neither which candidates   *)
(* filter returns nor their total scores: the value is returned for every *)
(* order or for none, and its score is the same for every order           *)
C28_WordOrderKeepsScores ==
  \A ws, os \in DOMAIN scores : scores[ws] = scores[os]

(* C28, the part the code keeps: whether the value is returned does not   *)
(* depend on the order of the words, and neither does the score when the  *)
(* query has two words                                                    *)
C28_WordOrderKeepsResults ==
  \A ws, os \in DOMAIN scores :
    /\ scores[ws].returned = scores[os].returned
    /\ Len(ws) = 2 => scores[ws] = scores[os]

(* the value was scored for two orders of a query of three words, one of  *)
(* them scored by the ALLCHARS rule                                       *)
C28_Witness ==
  /\ Cardinality(DOMAIN scores) >= 2
  /\ \A ws \in DOMAIN scores : Len(ws) = 3 /\ scores[ws].returned

====
